---- MODULE Spec2Model ----
(***************************************************************************)
(* A model of cuddly_kangaroo (src/src/main.rs): a Markdown static site    *)
(* generator.  main spawns one Website::create task per command-line       *)
(* argument; each task renders the header document with process_md and the *)
(* base document with process_file; process_md scans the parser's events   *)
(* and dispatches `cuddly_*` fenced blocks to the registered handlers,     *)
(* which may call process_md again.                                        *)
(*                                                                         *)
(* Strings whose characters the code inspects (fence languages, handler    *)
(* names) are sequences of one-character strings.  Texts (text-runs, TOML  *)
(* sources, HTML) are sequences of tokens.  A path is a sequence of        *)
(* components <<stem, extension>>.  Option values are sequences of length  *)
(* 0 (None) or 1 (Some).                                                   *)
(***************************************************************************)
EXTENDS Integers, Sequences, FiniteSets, TLC

\* ------------------------------------------------------------------ bounds

\* The most command-line arguments (sites) of one invocation.
MaxArgs == 2

\* The deepest chain of nested process_md calls that is followed; a document
\* graph with a cycle recurses without end in the code.
MaxDepth == 4

\* ----------------------------------------------------------------- strings

\* The reserved fence language of the metadata block.
TEMPLATEINFO == <<"t","e","m","p","l","a","t","e","i","n","f","o">>

\* The reserved prefix of a handler block's fence language.
CUDDLY == <<"c","u","d","d","l","y","_">>

\* The length of the handler prefix, as the literal index of `&lang[7..]`.
PrefixLen == 7

\* str::starts_with
StartsWith(s, p) == Len(s) >= Len(p) /\ SubSeq(s, 1, Len(p)) = p

\* `&s[n..]`
StrFrom(s, n) == SubSeq(s, n + 1, Len(s))

\* The names the three handlers are registered under.
HEADER == <<"h","e","a","d","e","r">>
INCLUDE == <<"i","n","c","l","u","d","e">>
INDEX == <<"i","n","d","e","x">>

\* Concatenation of a sequence of sequences.
Flatten(ss) ==
    CHOOSE r \in {LET RECURSIVE From(_)
                      From(k) == IF k > Len(q) THEN <<>> ELSE q[k] \o From(k + 1)
                  IN From(1) : q \in {ss}} : TRUE

\* Option
None == <<>>
Some(x) == <<x>>
IsSome(o) == Len(o) = 1
Unwrap(o) == o[1]

\* ------------------------------------------------------------------- paths

File(stem, ext) == <<stem, ext>>
Dir(name) == <<name, "">>
Root == <<"/", "">>

\* Path::is_absolute
IsAbsolute(p) == Len(p) > 0 /\ p[1] = Root

\* Path::join: an absolute argument replaces the base.
Join(base, p) == IF IsAbsolute(p) THEN p ELSE base \o p

\* Path::strip_prefix: Some(rest) when base is a prefix of p.
StripPrefix(p, base) ==
    IF Len(p) >= Len(base) /\ SubSeq(p, 1, Len(base)) = base
    THEN Some(SubSeq(p, Len(base) + 1, Len(p)))
    ELSE None

\* Path::with_extension
WithExtension(p, ext) ==
    IF p = <<>> THEN p
    ELSE [p EXCEPT ![Len(p)] = <<p[Len(p)][1], ext>>]

\* Path::extension
Extension(p) ==
    IF p = <<>> \/ p[Len(p)][2] = "" THEN None ELSE Some(p[Len(p)][2])

\* Path::parent
Parent(p) == IF p = <<>> THEN None ELSE Some(SubSeq(p, 1, Len(p) - 1))

\* OsStr::eq_ignore_ascii_case(ext, "md")
EqIgnoreCaseMd(ext) == ext \in {"md", "MD", "Md", "mD"}

\* PathBuf::from of a configuration value.
PathFrom(str) ==
    CASE str = "header.md" -> <<File("header", "md")>>
      [] str = "index.md" -> <<File("index", "md")>>
      [] str = "b.md" -> <<File("b", "md")>>
      [] str = "c.md" -> <<File("c", "md")>>
      [] str = "gone.md" -> <<File("gone", "md")>>
      [] str = "posts" -> <<Dir("posts")>>
      [] str = "nodir" -> <<Dir("nodir")>>
      [] str = "posts/index.md" -> <<Dir("posts"), File("index", "md")>>
      [] str = "/other/index.md" -> <<Root, Dir("other"), File("index", "md")>>
      [] str = "s.css" -> <<File("s", "css")>>
      [] str = "t.html" -> <<File("t", "html")>>
      [] str = "favicon.ico" -> <<File("favicon", "ico")>>
      [] str = "f.ico" -> <<File("f", "ico")>>
      [] str = "logo.png" -> <<File("logo", "png")>>
      [] str = "content" -> <<Dir("content")>>
      [] str = "output" -> <<Dir("output")>>
      [] OTHER -> <<File(str, "")>>

\* -------------------------------------------------------------------- TOML

\* A TOML source is a sequence of tokens `key=`, value, `key=`, value, ...
TomlKeys == {"style=", "template=", "favicon=", "time=", "title=",
             "description=", "path=", "left=", "right="}

TomlKeyAt(text, i) == text[2 * i - 1]
TomlValAt(text, i) == text[2 * i]

\* toml::from_str to a table: a source that is not a sequence of key/value
\* pairs, or that gives a key twice, does not parse.
TomlOk(text) ==
    /\ Len(text) % 2 = 0
    /\ \A i \in 1..(Len(text) \div 2) : TomlKeyAt(text, i) \in TomlKeys
    /\ \A i, j \in 1..(Len(text) \div 2) :
          TomlKeyAt(text, i) = TomlKeyAt(text, j) => i = j

TomlHas(text, key) == \E i \in 1..(Len(text) \div 2) : TomlKeyAt(text, i) = key

TomlGet(text, key) ==
    TomlValAt(text, CHOOSE i \in 1..(Len(text) \div 2) : TomlKeyAt(text, i) = key)

\* The date-times chrono accepts.
ValidTimes == {"2021-01-01", "2021-02-03"}

\* default_favicon
default_favicon == PathFrom("favicon.ico")

NoInfo == [style |-> <<>>, template |-> <<>>, favicon |-> <<>>,
           time |-> "", title |-> "", description |-> ""]

\* toml::from_str::<TemplateInfo>: every field but favicon is required.
TemplateInfoOk(text) ==
    /\ TomlOk(text)
    /\ \A k \in {"style=", "template=", "time=", "title=", "description="} :
          TomlHas(text, k)
    /\ TomlGet(text, "time=") \in ValidTimes

TemplateInfoOf(text) ==
    [style |-> PathFrom(TomlGet(text, "style=")),
     template |-> PathFrom(TomlGet(text, "template=")),
     favicon |-> IF TomlHas(text, "favicon=")
                 THEN PathFrom(TomlGet(text, "favicon="))
                 ELSE default_favicon,
     time |-> TomlGet(text, "time="),
     title |-> TomlGet(text, "title="),
     description |-> TomlGet(text, "description=")]

\* toml::from_str::<IncludeConfig> and ::<IndexConfig>: `path` is required.
PathConfigOk(text) == TomlOk(text) /\ TomlHas(text, "path=")
PathConfigOf(text) == PathFrom(TomlGet(text, "path="))

\* The (icon path or name, href) pairs a `left`/`right` value stands for.
HeaderItems(val) ==
    CASE val = "[logo]" -> <<[icon |-> "logo.png", href |-> "/"]>>
      [] val = "[text]" -> <<[icon |-> "About", href |-> "/about"]>>
      [] val = "[logo,text]" -> <<[icon |-> "logo.png", href |-> "/"],
                                  [icon |-> "About", href |-> "/about"]>>
      [] OTHER -> <<>>

\* toml::from_str::<HeaderConfig>: both groups default to empty.
HeaderConfigOk(text) == TomlOk(text)
HeaderConfigOf(text) ==
    [left |-> IF TomlHas(text, "left=")
              THEN HeaderItems(TomlGet(text, "left=")) ELSE <<>>,
     right |-> IF TomlHas(text, "right=")
               THEN HeaderItems(TomlGet(text, "right=")) ELSE <<>>]

\* ------------------------------------------------------------------ events

\* pulldown_cmark::Event, as far as process_md tells the variants apart.
\* Start/End stand for Start/End(Tag::CodeBlock(CodeBlockKind::Fenced(lang)));
\* Other is every other structural event and carries the markup it renders to.
StartFenced(lang) == [ty |-> "Start", lang |-> lang, text |-> <<>>]
EndFenced(lang) == [ty |-> "End", lang |-> lang, text |-> <<>>]
Text(t) == [ty |-> "Text", lang |-> <<>>, text |-> t]
Html(t) == [ty |-> "Html", lang |-> <<>>, text |-> t]
Other(t) == [ty |-> "Other", lang |-> <<>>, text |-> t]

\* gh_emoji::Replacer::replace_all, token by token.
EmojiToken(tok) ==
    CASE tok = ":heart:" -> "U+2764"
      [] tok = ":smile:" -> "U+1F604"
      [] OTHER -> tok

EmojiReplace(text) == [i \in DOMAIN text |-> EmojiToken(text[i])]

\* The grammar tokens SyntaxSet::find_syntax_by_token knows: those of the
\* default grammars and those of the grammars added from the `syntaxes`
\* folder, which may bear any name.
KnownSyntaxes == {<<"r","s">>, <<"c">>, TEMPLATEINFO, CUDDLY \o INCLUDE}

find_syntax_by_token(lang) == IF lang \in KnownSyntaxes THEN Some(lang) ELSE None

\* pulldown_cmark's HTML escaping of a text token.
EscapeToken(tok) ==
    CASE tok = "<b>" -> "&lt;b&gt;"
      [] tok = "<<<PUT THE TITLE HERE>>>" -> "&lt;&lt;&lt;PUT THE TITLE HERE&gt;&gt;&gt;"
      [] OTHER -> tok

Escape(text) == [i \in DOMAIN text |-> EscapeToken(text[i])]

\* syntect::html::highlighted_html_for_string
highlighted_html_for_string(text, syntax) ==
    <<"<pre style=\"background-color\">">> \o syntax \o <<":">>
        \o Escape(text) \o <<"</pre>">>

\* What html::push_html writes for one event.
EventHtml(e) ==
    CASE e.ty = "Start" ->
            IF e.lang = <<>> THEN <<"<pre><code>">>
            ELSE <<"<pre><code class=\"language-">> \o e.lang \o <<"\">">>
      [] e.ty = "End" -> <<"</code></pre>">>
      [] e.ty = "Text" -> Escape(e.text)
      [] e.ty = "Html" -> e.text
      [] OTHER -> e.text

\* html::push_html over the whole event sequence.
push_html(events) == Flatten([i \in DOMAIN events |-> EventHtml(events[i])])

\* ------------------------------------------------------------------ assets

\* base64::encode, token by token.
Base64Token(tok) ==
    CASE tok = "ICO" -> "SUNP"
      [] tok = "PNG" -> "UE5H"
      [] OTHER -> "AAAA"

base64_encode(bytes) == [i \in DOMAIN bytes |-> Base64Token(bytes[i])]

\* mime_guess::from_path(path).first_raw()
mime_guess(path) ==
    CASE Extension(path) = Some("png") -> Some("image/png")
      [] Extension(path) = Some("ico") -> Some("image/x-icon")
      [] OTHER -> None

\* String::replace of one marker by a fragment.
Replace(html, marker, frag) ==
    CHOOSE r \in {Flatten([i \in DOMAIN h |->
                              IF h[i] = marker THEN frag ELSE <<h[i]>>]) :
                     h \in {html}} : TRUE

\* The six substitutions of process_file, in the order of the code.
Compose(html, css, markdown_html, header, favicon, title, description) ==
    LET h1 == Replace(html, "<<<PUT THE STYLESHEET HERE>>>", css)
        h2 == Replace(h1, "<<<PUT THE MAIN CONTENT HERE>>>", markdown_html)
        h3 == Replace(h2, "<<<PUT THE HEADER HERE>>>", header)
        h4 == Replace(h3, "<<<PUT THE FAVICON HERE>>>", favicon)
        h5 == Replace(h4, "<<<PUT THE TITLE HERE>>>", <<title>>)
    IN Replace(h5, "<<<PUT THE DESCRIPTION HERE>>>", <<description>>)

\* --------------------------------------------------------------- documents

\* The events the parser gives for a fenced block with the given text-runs.
Fenced(lang, runs) ==
    <<StartFenced(lang)>> \o [i \in DOMAIN runs |-> Text(runs[i])]
        \o <<EndFenced(lang)>>

Meta(runs) == Fenced(TEMPLATEINFO, runs)
HandlerBlock(name, runs) == Fenced(CUDDLY \o name, runs)
Para(text) == <<Other(<<"<p>">>), Text(text), Other(<<"</p>">>)>>

MetaHead == <<"style=", "s.css", "template=", "t.html">>
MetaTail(title) ==
    <<"time=", "2021-01-01", "title=", title, "description=", "D">>
GoodMeta(title) == MetaHead \o MetaTail(title)

IncludeOf(file) == HandlerBlock(INCLUDE, << <<"path=", file>> >>)
IndexOf(dir) == HandlerBlock(INDEX, << <<"path=", dir>> >>)
NOPE == <<"n","o","p","e">>

\* Header documents.
H_nav == Meta(<<GoodMeta("Header")>>)
           \o HandlerBlock(HEADER, << <<"left=", "[logo,text]", "right=", "[text]">> >>)
H_plain == Meta(<<GoodMeta("Header")>>) \o Para(<<"nav">>)
H_nometa == Para(<<"nav">>)
H_badtoml == Meta(<<GoodMeta("Header")>>) \o HandlerBlock(HEADER, << <<"left=">> >>)

\* Base documents.
A_plain == Meta(<<GoodMeta(":smile:")>>) \o Para(<<"hello", ":heart:", "<b>">>)
A_code == Meta(<<GoodMeta("Code")>>) \o Fenced(<<"r","s">>, << <<"fn", "main">> >>)
            \o Fenced(<<"z","z">>, << <<"raw">> >>)
A_inclB == Para(<<"a-pre">>) \o IncludeOf("b.md") \o Meta(<<GoodMeta("A")>>)
             \o Para(<<"a-post">>)
A_inclTwice == Meta(<<GoodMeta("A")>>) \o IncludeOf("b.md") \o IncludeOf("b.md")
A_index == Meta(<<GoodMeta("A")>>) \o IndexOf("posts")
A_indexGone == Meta(<<GoodMeta("A")>>) \o IndexOf("nodir")
A_nometa == Para(<<"hello">>)
A_emptymeta == Meta(<<>>) \o Para(<<"hello">>)
A_splitmeta == Meta(<<MetaHead, MetaTail("Split")>>) \o Para(<<"hello">>)
A_favmeta == Meta(<< <<"favicon=", "f.ico">>, GoodMeta("Fav") >>) \o Para(<<"hello">>)
A_badmeta == Meta(<< <<"title=">> >>)
A_missing == Meta(<<GoodMeta("A")>>) \o Para(<<"before">>)
               \o HandlerBlock(NOPE, << <<"x">> >>)
A_missingNoMeta == Para(<<"before">>) \o HandlerBlock(NOPE, << <<"x">> >>)
A_emptyName == Meta(<<GoodMeta("A")>>) \o HandlerBlock(<<>>, << <<"x">> >>)
A_emptyHandler == Meta(<<GoodMeta("A")>>) \o HandlerBlock(NOPE, <<>>)
A_self == Meta(<<GoodMeta("A")>>) \o IncludeOf("index.md")
A_inclGone == Meta(<<GoodMeta("A")>>) \o IncludeOf("gone.md")
A_badInclude == Meta(<<GoodMeta("A")>>) \o HandlerBlock(INCLUDE, << <<"path=">> >>)
A_navInBody == Meta(<<GoodMeta("A")>>)
                 \o HandlerBlock(HEADER, << <<"left=", "[logo]">> >>)

\* The smallest documents.
T_meta == Meta(<<GoodMeta("T")>>)

\* Included documents.
B_ok == Meta(<<GoodMeta("B")>>) \o Para(<<"b-body">>)
B_inclC == Para(<<"b-pre">>) \o Meta(<<GoodMeta("B")>>) \o IncludeOf("c.md")
             \o Para(<<"b-post">>)
B_nometa == Para(<<"b-body">>)
B_missing == Meta(<<GoodMeta("B")>>) \o HandlerBlock(NOPE, << <<"x">> >>)
C_ok == Meta(<<GoodMeta("C")>>) \o Para(<<"c-body">>)
C_nometa == Para(<<"c-body">>)

\* Documents of the `posts` directory.
P_one == Meta(<<GoodMeta("Post1")>>) \o Para(<<"one">>)
P_two == Meta(<< <<"style=", "s.css", "template=", "t.html", "time=",
                  "2021-02-03", "title=", "Post2", "description=", "D">> >>)
P_nometa == Para(<<"two">>)

\* ------------------------------------------------------------------ worlds

Content == PathFrom("content")
Output == PathFrom("output")
InContent(file) == Join(Content, PathFrom(file))
Posts == InContent("posts")

\* The themes of ThemeSet::load_defaults.
LoadedThemes == {"base16-ocean.dark", "InspiredGitHub"}

DefaultConfig ==
    [syntax_theme |-> "base16-ocean.dark", content_path |-> Content,
     output_path |-> Output, base_file |-> PathFrom("index.md"),
     header_file |-> PathFrom("header.md")]

Skeleton ==
    <<"<html>", "<<<PUT THE TITLE HERE>>>", "<<<PUT THE STYLESHEET HERE>>>",
      "<<<PUT THE FAVICON HERE>>>", "<<<PUT THE DESCRIPTION HERE>>>",
      "<<<PUT THE HEADER HERE>>>", "<<<PUT THE MAIN CONTENT HERE>>>",
      "<<<PUT THE FOOTER HERE>>>", "</html>">>

DefaultFiles ==
    InContent("s.css") :> <<"body{}">> @@ InContent("t.html") :> Skeleton
        @@ InContent("favicon.ico") :> <<"ICO">>
        @@ InContent("f.ico") :> <<"ICO", "ICO">>
        @@ InContent("logo.png") :> <<"PNG">>

\* What one configuration file and the file system around it hold: whether
\* the configuration reads and parses, the parsed Config, the Markdown
\* documents by path (as the parser's events), the other files by path, the
\* directory listings in the order read_dir gives them, and whether creating
\* output directories and writing output files succeeds.
MkWorld(hdr, base, b, c, p2) ==
    [readable |-> TRUE, parses |-> TRUE, syntaxes_ok |-> TRUE,
     config |-> DefaultConfig,
     md |-> InContent("header.md") :> hdr @@ InContent("index.md") :> base
              @@ InContent("b.md") :> b @@ InContent("c.md") :> c
              @@ (Posts \o <<File("p1", "md")>>) :> P_one
              @@ (Posts \o <<File("p2", "MD")>>) :> p2,
     files |-> DefaultFiles,
     dirs |-> Posts :> <<Posts \o <<File("p2", "MD")>>,
                         Posts \o <<File("notes", "txt")>>,
                         Posts \o <<Dir("drafts")>>,
                         Posts \o <<File("p1", "md")>> >>,
     mkdir_ok |-> TRUE, write_ok |-> TRUE]

Base(a) == MkWorld(H_plain, a, B_ok, C_ok, P_two)
Plain == Base(A_plain)

WithoutFile(w, file) ==
    [w EXCEPT !.files = [p \in DOMAIN w.files \ {InContent(file)} |-> w.files[p]]]

\* The configuration files that can be named on the command line.
Worlds ==
    "plain.toml" :> Plain
    @@ "code.toml" :> Base(A_code)
    @@ "nometa.toml" :> Base(A_nometa)
    @@ "emptymeta.toml" :> Base(A_emptymeta)
    @@ "splitmeta.toml" :> Base(A_splitmeta)
    @@ "favmeta.toml" :> Base(A_favmeta)
    @@ "badmeta.toml" :> Base(A_badmeta)
    @@ "missing.toml" :> Base(A_missing)
    @@ "missing_nometa.toml" :> Base(A_missingNoMeta)
    @@ "emptyname.toml" :> Base(A_emptyName)
    @@ "emptyhandler.toml" :> Base(A_emptyHandler)
    @@ "self.toml" :> Base(A_self)
    @@ "inclgone.toml" :> Base(A_inclGone)
    @@ "badinclude.toml" :> Base(A_badInclude)
    @@ "navinbody.toml" :> Base(A_navInBody)
    @@ "index.toml" :> Base(A_index)
    @@ "index_nometa.toml" :> MkWorld(H_plain, A_index, B_ok, C_ok, P_nometa)
    @@ "indexgone.toml" :> Base(A_indexGone)
    @@ "incl.toml" :> Base(A_inclB)
    @@ "incl_c.toml" :> MkWorld(H_plain, A_inclB, B_inclC, C_ok, P_two)
    @@ "incl_c_nometa.toml" :> MkWorld(H_plain, A_inclB, B_inclC, C_nometa, P_two)
    @@ "incl_nometa.toml" :> MkWorld(H_plain, A_inclB, B_nometa, C_ok, P_two)
    @@ "incl_missing.toml" :> MkWorld(H_plain, A_inclB, B_missing, C_ok, P_two)
    @@ "twice.toml" :> Base(A_inclTwice)
    @@ "twice_c.toml" :> MkWorld(H_plain, A_inclTwice, B_inclC, C_ok, P_two)
    @@ "h_nav.toml" :> MkWorld(H_nav, A_plain, B_ok, C_ok, P_two)
    @@ "h_nometa.toml" :> MkWorld(H_nometa, A_plain, B_ok, C_ok, P_two)
    @@ "h_badtoml.toml" :> MkWorld(H_badtoml, A_plain, B_ok, C_ok, P_two)
    @@ "tiny.toml" :> MkWorld(T_meta, T_meta, B_ok, C_ok, P_two)
    @@ "tiny_nometa.toml" :> MkWorld(H_nometa, T_meta, B_ok, C_ok, P_two)
    @@ "unreadable.toml" :> [Plain EXCEPT !.readable = FALSE]
    @@ "unparsable.toml" :> [Plain EXCEPT !.parses = FALSE]
    @@ "nosyntaxes.toml" :> [Plain EXCEPT !.syntaxes_ok = FALSE]
    @@ "notheme.toml" :> [Plain EXCEPT !.config.syntax_theme = "nope"]
    @@ "outside.toml" :>
          [Plain EXCEPT !.config.base_file = PathFrom("/other/index.md")]
    @@ "noindex.toml" :> [Plain EXCEPT !.config.base_file = PathFrom("b.md")]
    @@ "nested.toml" :>
          [Plain EXCEPT !.config.base_file = PathFrom("posts/index.md"),
                        !.md = InContent("posts/index.md") :> A_plain @@ @]
    @@ "nomkdir.toml" :> [Plain EXCEPT !.mkdir_ok = FALSE]
    @@ "nomkdir_nested.toml" :>
          [Plain EXCEPT !.mkdir_ok = FALSE,
                        !.config.base_file = PathFrom("posts/index.md"),
                        !.md = InContent("posts/index.md") :> A_plain @@ @]
    @@ "nowrite.toml" :> [Plain EXCEPT !.write_ok = FALSE]
    @@ "nocss.toml" :> WithoutFile(Plain, "s.css")
    @@ "notemplate.toml" :> WithoutFile(Plain, "t.html")
    @@ "nofavicon.toml" :> WithoutFile(Plain, "favicon.ico")
    @@ "labelfile.toml" :>
          [MkWorld(H_nav, A_plain, B_ok, C_ok, P_two)
              EXCEPT !.files = InContent("About") :> <<"TXT">> @@ @]
    @@ "routes.toml" :>
          Base(Para(<<"intro", ":heart:">>) \o Meta(<<GoodMeta(":smile:")>>)
               \o Fenced(<<"r","s">>, << <<"fn", ":heart:", "<b>">> >>)
               \o Para(<<"between">>)
               \o Fenced(<<"z","z">>, << <<"raw", ":smile:">> >>)
               \o IncludeOf("b.md")
               \o Fenced(<<>>, << <<"bare">> >>)
               \o Para(<<"outro">>))
    @@ "indexself.toml" :>
          [Base(A_index) EXCEPT !.md[Posts \o <<File("p1", "md")>>] = A_index]
    @@ "markercss.toml" :>
          [Plain EXCEPT !.files[InContent("s.css")] =
                            <<"body{}", "<<<PUT THE TITLE HERE>>>">>]
    @@ "nologo.toml" :>
          WithoutFile(MkWorld(H_nav, A_plain, B_ok, C_ok, P_two), "logo.png")

\* The configuration files used when several sites are built at once.
SmallWorlds == {"tiny.toml", "unreadable.toml", "notheme.toml"}

\* The command lines: one site of any kind, or several of the small ones.
RECURSIVE SeqsOf(_, _)
SeqsOf(S, n) ==
    IF n = 0 THEN {<<>>}
    ELSE {Append(q, x) : q \in SeqsOf(S, n - 1), x \in S}

CommandLines ==
    {<<>>} \cup {<<w>> : w \in DOMAIN Worlds}
        \cup UNION {SeqsOf(SmallWorlds, n) : n \in 2..MaxArgs}

\* ------------------------------------------------------------------- state

VARIABLES
    args,        \* std::env::args().skip(1): the configuration files
    disk,        \* per task: what the configuration file and its site hold
    mainPc,      \* where main is: "spawn", "join", "returned", "exited"
    mainI,       \* the index of the argument main spawns or joins next
    mainResult,  \* what main returned
    status,      \* per task: "unspawned", "running", "finished", "panicked", "cancelled"
    result,      \* per task: what Website::create returned
    stack,       \* per task: the frames of the calls in progress, innermost last
    ret,         \* per task: the value the last completed call returned
    website,     \* per task: the Website value
    outdirs,     \* per task: the output directories created
    written,     \* per task: the output files written, in order
    stdout,      \* per task: the lines printed
    rendered     \* per task: every return of process_md, in order

mainVars == <<args, disk, mainPc, mainI, mainResult>>
vars == <<args, disk, mainPc, mainI, mainResult, status, result, stack, ret,
          website, outdirs, written, stdout, rendered>>

Tasks == 1..Len(args)
World(s) == disk[s]

\* Error values: the variant, its paths and (for MissingHandler) the name.
NoErr == [kind |-> "", path |-> <<>>, path2 |-> <<>>, name |-> <<>>]
Err(kind, path) == [NoErr EXCEPT !.kind = kind, !.path = path]
Err2(kind, path, path2) == [Err(kind, path) EXCEPT !.path2 = path2]
MissingHandler(path, name) == [Err("MissingHandler", path) EXCEPT !.name = name]

\* Result values of process_md (frag, info), process_file (path, info) and
\* Handler::handle (frag).
NoRet == [ok |-> TRUE, frag |-> <<>>, info |-> NoInfo, path |-> <<>>, err |-> NoErr]
RetOk(frag, info, path) == [NoRet EXCEPT !.frag = frag, !.info = info, !.path = path]
RetErr(e) == [NoRet EXCEPT !.ok = FALSE, !.err = e]

\* Result values of Website::create and of main.
Pending == [kind |-> "none", err |-> NoErr]
Ok == [kind |-> "Ok", err |-> NoErr]
Failed(e) == [kind |-> "Err", err |-> e]

\* One call in progress: the function, where it is, and its locals.
NewFrame(fn, pc, path) ==
    [fn |-> fn, pc |-> pc, path |-> path, input_md |-> <<>>, i |-> 1,
     cur_lang |-> None, template_info |-> None, extended_md |-> <<>>,
     text |-> <<>>, out |-> <<>>, entries |-> <<>>, items |-> <<>>,
     output_path |-> <<>>, markdown_html |-> <<>>, info |-> NoInfo,
     css |-> <<>>, html |-> <<>>]

\* Website before create has built it.
NoWebsite ==
    [built |-> FALSE, config |-> DefaultConfig, header |-> <<>>,
     handlers |-> <<>>, refs |-> 0]

Init ==
    /\ args \in CommandLines
    /\ disk = [s \in Tasks |-> Worlds[args[s]]]
    /\ mainPc = IF args = <<>> THEN "join" ELSE "spawn"
    /\ mainI = 1
    /\ mainResult = Pending
    /\ status = [s \in Tasks |-> "unspawned"]
    /\ result = [s \in Tasks |-> Pending]
    /\ stack = [s \in Tasks |-> <<>>]
    /\ ret = [s \in Tasks |-> NoRet]
    /\ website = [s \in Tasks |-> NoWebsite]
    /\ outdirs = [s \in Tasks |-> {}]
    /\ written = [s \in Tasks |-> <<>>]
    /\ stdout = [s \in Tasks |-> <<>>]
    /\ rendered = [s \in Tasks |-> <<>>]

Top(s) == stack[s][Len(stack[s])]
SetTop(s, f) == [stack EXCEPT ![s] = [@ EXCEPT ![Len(@)] = f]]
Call(s, f, callee) == [stack EXCEPT ![s] = Append([@ EXCEPT ![Len(@)] = f], callee)]
Pop(s) == [stack EXCEPT ![s] = SubSeq(@, 1, Len(@) - 1)]

\* A task runs until the runtime is dropped.
Running(s) == s \in Tasks /\ status[s] = "running" /\ mainPc # "exited"
At(s, fn, pc) ==
    Running(s) /\ stack[s] # <<>> /\ Top(s).fn = fn /\ Top(s).pc = pc

\* The process_md calls in progress.
Depth(s) ==
    Cardinality({k \in DOMAIN stack[s] : stack[s][k].fn = "process_md"})

\* A return of the innermost call to its caller.
Return(s, r) == stack' = Pop(s) /\ ret' = [ret EXCEPT ![s] = r]

\* A panic unwinds the whole task.
Panic(s) ==
    /\ status' = [status EXCEPT ![s] = "panicked"]
    /\ stack' = [stack EXCEPT ![s] = <<>>]

\* Website::create returns.
Finish(s, r) ==
    /\ status' = [status EXCEPT ![s] = "finished"]
    /\ result' = [result EXCEPT ![s] = r]
    /\ stack' = [stack EXCEPT ![s] = <<>>]

\* -------------------------------------------------------------------- main

\* main, the spawn loop: tokio::spawn of Website::create(config_toml).
MainSpawn ==
    /\ mainPc = "spawn"
    /\ mainI <= Len(args)
    /\ status' = [status EXCEPT ![mainI] = "running"]
    /\ stack' = [stack EXCEPT ![mainI] =
                    <<NewFrame("create", "read_config", PathFrom(args[mainI]))>>]
    /\ mainI' = IF mainI = Len(args) THEN 1 ELSE mainI + 1
    /\ mainPc' = IF mainI = Len(args) THEN "join" ELSE "spawn"
    /\ UNCHANGED <<args, disk, mainResult, result, ret, website, outdirs, written,
                   stdout, rendered>>

\* JoinOutcome with the join error dropped (`if let Ok(r) = website.await`).
JoinOutcome_IgnoreJoinError(st, res) ==
    IF st = "panicked" THEN Ok ELSE res

\* What `website.await.map_err(Error::WebsiteJoin)??` makes of a task that
\* has ended: Ok to go on with the next handle, or the error main returns.
JoinOutcome(st, res) ==
    IF st = "panicked" THEN Failed(Err("WebsiteJoin", <<>>))
    ELSE res

\* main, the join loop: one handle awaited, in the order of the arguments.
MainJoin ==
    /\ mainPc = "join"
    /\ mainI <= Len(args)
    /\ status[mainI] \in {"finished", "panicked"}
    /\ LET o == JoinOutcome(status[mainI], result[mainI]) IN
        IF o = Ok
        THEN /\ mainI' = mainI + 1
             /\ UNCHANGED <<mainPc, mainResult>>
        ELSE /\ mainPc' = "returned"
             /\ mainResult' = o
             /\ UNCHANGED mainI
    /\ UNCHANGED <<args, disk, status, result, stack, ret, website, outdirs, written,
                   stdout, rendered>>

\* main, after the join loop: Ok(()).
MainReturnOk ==
    /\ mainPc = "join"
    /\ mainI > Len(args)
    /\ mainPc' = "returned"
    /\ mainResult' = Ok
    /\ UNCHANGED <<args, disk, mainI, status, result, stack, ret, website, outdirs,
                   written, stdout, rendered>>

\* #[tokio::main]: once main has returned the runtime is dropped, and every
\* task that has not ended is dropped at the await it is suspended on.
RuntimeShutdown ==
    /\ mainPc = "returned"
    /\ mainPc' = "exited"
    /\ status' = [s \in Tasks |->
                    IF status[s] = "running" THEN "cancelled" ELSE status[s]]
    /\ UNCHANGED <<args, disk, mainI, mainResult, result, stack, ret, website,
                   outdirs, written, stdout, rendered>>

\* --------------------------------------------------------- Website::create

\* The handler registry create fills.
Registry == HEADER :> "Header" @@ INCLUDE :> "Include" @@ INDEX :> "Index"

\* tokio::fs::read_to_string(&config_toml)
CreateReadConfig(s) ==
    /\ At(s, "create", "read_config")
    /\ IF World(s).readable
       THEN /\ stack' = SetTop(s, [Top(s) EXCEPT !.pc = "build"])
            /\ UNCHANGED <<status, result>>
       ELSE Finish(s, Failed(Err("ConfigRead", Top(s).path)))
    /\ UNCHANGED <<mainVars, ret, website, outdirs, written, stdout, rendered>>

\* From parsing the configuration to the call of process_md on the header
\* file.
CreateWebsite(s) ==
    /\ At(s, "create", "build")
    /\ LET w == World(s) IN
        IF ~w.parses
        THEN /\ Finish(s, Failed(Err("ConfigParse", Top(s).path)))
             /\ UNCHANGED website
        ELSE IF ~w.syntaxes_ok
        THEN /\ Finish(s, Failed(Err("LoadSyntax", <<>>)))
             /\ UNCHANGED website
        ELSE IF w.config.syntax_theme \notin LoadedThemes
        THEN /\ Panic(s)
             /\ UNCHANGED <<result, website>>
        ELSE /\ website' = [website EXCEPT ![s] =
                    [built |-> TRUE, config |-> w.config, header |-> <<>>,
                     handlers |-> Registry, refs |-> 1]]
             /\ stack' = Call(s, [Top(s) EXCEPT !.pc = "header"],
                    NewFrame("process_md", "read",
                        Join(w.config.content_path, w.config.header_file)))
             /\ UNCHANGED <<status, result>>
    /\ UNCHANGED <<mainVars, ret, outdirs, written, stdout, rendered>>

\* CreateInstallHeader without `tmp.header = header.0`.
CreateInstallHeader_NoStore(s) ==
    /\ At(s, "create", "header")
    /\ IF ~ret[s].ok
       THEN /\ Finish(s, Failed(ret[s].err))
            /\ UNCHANGED website
       ELSE IF website[s].refs # 1
       THEN /\ Panic(s)
            /\ UNCHANGED <<result, website>>
       ELSE /\ stack' = Call(s, [Top(s) EXCEPT !.pc = "base"],
                    NewFrame("process_file", "start",
                        Join(website[s].config.content_path,
                             website[s].config.base_file)))
            /\ UNCHANGED <<status, result, website>>
    /\ UNCHANGED <<mainVars, ret, outdirs, written, stdout, rendered>>

\* After the header's process_md: Arc::try_unwrap, the header stored, and
\* the call of process_file on the base file.
CreateInstallHeader(s) ==
    /\ At(s, "create", "header")
    /\ IF ~ret[s].ok
       THEN /\ Finish(s, Failed(ret[s].err))
            /\ UNCHANGED website
       ELSE IF website[s].refs # 1
       THEN /\ Panic(s)
            /\ UNCHANGED <<result, website>>
       ELSE /\ website' = [website EXCEPT ![s].header = ret[s].frag]
            /\ stack' = Call(s, [Top(s) EXCEPT !.pc = "base"],
                    NewFrame("process_file", "start",
                        Join(website[s].config.content_path,
                             website[s].config.base_file)))
            /\ UNCHANGED <<status, result>>
    /\ UNCHANGED <<mainVars, ret, outdirs, written, stdout, rendered>>

\* After the base file's process_file: the elapsed time printed, Ok(()).
CreateFinish(s) ==
    /\ At(s, "create", "base")
    /\ IF ~ret[s].ok
       THEN /\ Finish(s, Failed(ret[s].err))
            /\ UNCHANGED stdout
       ELSE /\ Finish(s, Ok)
            /\ stdout' = [stdout EXCEPT ![s] = Append(@, "elapsed")]
    /\ UNCHANGED <<mainVars, ret, website, outdirs, written, rendered>>

\* ------------------------------------------------------ Website::process_md

\* The record of one return of process_md: the document, the result, the
\* index of the event the loop was at, the events collected for push_html
\* and the metadata source buffered.
Rendering(f, r) ==
    [path |-> f.path, ret |-> r, at |-> f.i, events |-> f.extended_md,
     source |-> f.template_info]

MdReturn(s, f, r) ==
    /\ Return(s, r)
    /\ rendered' = [rendered EXCEPT ![s] = Append(@, Rendering(f, r))]

\* tokio::fs::read_to_string(&path), then Parser::new(..).collect().
ProcessMdRead(s) ==
    /\ At(s, "process_md", "read")
    /\ LET f == Top(s) IN
        IF f.path \in DOMAIN World(s).md
        THEN /\ stack' = SetTop(s, [f EXCEPT !.pc = "scan",
                                              !.input_md = World(s).md[f.path]])
             /\ UNCHANGED <<ret, rendered>>
        ELSE MdReturn(s, f, RetErr(Err("ReadMarkdownInput", f.path)))
    /\ UNCHANGED <<mainVars, status, result, website, outdirs, written, stdout>>

\* The fence languages whose block-start and block-end are suppressed.
Suppressed(lang) == lang = TEMPLATEINFO \/ StartsWith(lang, CUDDLY)

\* The loop body for the start or the end of a fenced code block.
AfterFence(f, e) ==
    [f EXCEPT !.cur_lang = IF e.ty = "Start" THEN Some(e.lang) ELSE None,
              !.extended_md = IF Suppressed(e.lang) THEN @ ELSE Append(@, e),
              !.i = @ + 1]

\* Route with the grammar looked up before the templateinfo and `cuddly_`
\* arms.
Route_HighlightFirst(cur_lang) ==
    IF cur_lang = None THEN "plain"
    ELSE IF IsSome(find_syntax_by_token(Unwrap(cur_lang))) THEN "highlight"
    ELSE IF Unwrap(cur_lang) = TEMPLATEINFO THEN "meta"
    ELSE IF StartsWith(Unwrap(cur_lang), CUDDLY) THEN "handler"
    ELSE "plain"

\* Where the if/else-if chain sends a text-run, given cur_lang.
Route(cur_lang) ==
    IF cur_lang = None THEN "plain"
    ELSE IF Unwrap(cur_lang) = TEMPLATEINFO THEN "meta"
    ELSE IF StartsWith(Unwrap(cur_lang), CUDDLY) THEN "handler"
    ELSE IF IsSome(find_syntax_by_token(Unwrap(cur_lang))) THEN "highlight"
    ELSE "plain"

\* AfterText without the `continue 'next_event` of the templateinfo arm:
\* the text-run is buffered and pushed as well.
AfterText_NoContinue(f, text) ==
    CASE Route(f.cur_lang) = "meta" ->
            [f EXCEPT !.template_info = Some(text),
                      !.extended_md = Append(@, Text(text)), !.i = @ + 1]
      [] Route(f.cur_lang) = "highlight" ->
            [f EXCEPT !.extended_md = Append(@, Html(
                          highlighted_html_for_string(text,
                              Unwrap(find_syntax_by_token(Unwrap(f.cur_lang)))))),
                      !.i = @ + 1]
      [] OTHER -> [f EXCEPT !.extended_md = Append(@, Text(text)), !.i = @ + 1]

\* The loop body for a text-run (already emoji-replaced) that no handler
\* gets: buffered as template info, highlighted, or pushed as it is.
AfterText(f, text) ==
    CASE Route(f.cur_lang) = "meta" ->
            [f EXCEPT !.template_info = Some(text), !.i = @ + 1]
      [] Route(f.cur_lang) = "highlight" ->
            [f EXCEPT !.extended_md = Append(@, Html(
                          highlighted_html_for_string(text,
                              Unwrap(find_syntax_by_token(Unwrap(f.cur_lang)))))),
                      !.i = @ + 1]
      [] OTHER -> [f EXCEPT !.extended_md = Append(@, Text(text)), !.i = @ + 1]

\* HandlerName with the slice one character short (`[6..]`).
HandlerName_OffByOne(lang) == StrFrom(lang, PrefixLen - 1)

\* `&lang.as_ref()[7..]`
HandlerName(lang) == StrFrom(lang, PrefixLen)

\* AfterHandler with the fragment pushed as a text event (`Event::Text`
\* in place of `Event::Html`), which push_html escapes.
AfterHandler_AsText(f, frag) ==
    [f EXCEPT !.pc = "scan", !.extended_md = Append(@, Text(frag)), !.i = @ + 1]

\* The loop body after a handler has returned its fragment.
AfterHandler(f, frag) ==
    [f EXCEPT !.pc = "scan", !.extended_md = Append(@, Html(frag)), !.i = @ + 1]

AtEvent(s, ty) ==
    /\ At(s, "process_md", "scan")
    /\ Top(s).i <= Len(Top(s).input_md)
    /\ Top(s).input_md[Top(s).i].ty = ty

\* Event::Start(Tag::CodeBlock(CodeBlockKind::Fenced(lang)))
ProcessMdStart(s) ==
    /\ AtEvent(s, "Start")
    /\ stack' = SetTop(s, AfterFence(Top(s), Top(s).input_md[Top(s).i]))
    /\ UNCHANGED <<mainVars, status, result, ret, website, outdirs, written,
                   stdout, rendered>>

\* Event::End(Tag::CodeBlock(CodeBlockKind::Fenced(lang)))
ProcessMdEnd(s) ==
    /\ AtEvent(s, "End")
    /\ stack' = SetTop(s, AfterFence(Top(s), Top(s).input_md[Top(s).i]))
    /\ UNCHANGED <<mainVars, status, result, ret, website, outdirs, written,
                   stdout, rendered>>

\* Event::Text outside a handler block.
ProcessMdText(s) ==
    /\ AtEvent(s, "Text")
    /\ Route(Top(s).cur_lang) # "handler"
    /\ stack' = SetTop(s, AfterText(Top(s),
                    EmojiReplace(Top(s).input_md[Top(s).i].text)))
    /\ UNCHANGED <<mainVars, status, result, ret, website, outdirs, written,
                   stdout, rendered>>

\* Event::Text inside a `cuddly_` block: the handler looked up and invoked.
ProcessMdDispatch(s) ==
    /\ AtEvent(s, "Text")
    /\ Route(Top(s).cur_lang) = "handler"
    /\ LET f == Top(s)
           text == EmojiReplace(f.input_md[f.i].text)
           handler == HandlerName(Unwrap(f.cur_lang))
       IN IF handler \in DOMAIN website[s].handlers
          THEN /\ stack' = Call(s, [f EXCEPT !.pc = "handler"],
                      [NewFrame(website[s].handlers[handler], "start", <<>>)
                          EXCEPT !.text = text])
               /\ UNCHANGED <<ret, rendered>>
          ELSE MdReturn(s, f, RetErr(MissingHandler(f.path, handler)))
    /\ UNCHANGED <<mainVars, status, result, website, outdirs, written, stdout>>

\* `handler.handle(&text, self).await?` has returned.
ProcessMdHandled(s) ==
    /\ At(s, "process_md", "handler")
    /\ IF ret[s].ok
       THEN /\ stack' = SetTop(s, AfterHandler(Top(s), ret[s].frag))
            /\ UNCHANGED <<ret, rendered>>
       ELSE MdReturn(s, Top(s), ret[s])
    /\ UNCHANGED <<mainVars, status, result, website, outdirs, written, stdout>>

\* Every other event is pushed untouched.
ProcessMdOther(s) ==
    /\ At(s, "process_md", "scan")
    /\ Top(s).i <= Len(Top(s).input_md)
    /\ Top(s).input_md[Top(s).i].ty \notin {"Start", "End", "Text"}
    /\ stack' = SetTop(s, [Top(s) EXCEPT
                    !.extended_md = Append(@, Top(s).input_md[Top(s).i]),
                    !.i = @ + 1])
    /\ UNCHANGED <<mainVars, status, result, ret, website, outdirs, written,
                   stdout, rendered>>

\* MdResult with a missing template info read as an empty source
\* (`unwrap_or_default` in place of `ok_or_else(..)?`).
MdResult_Default(f, config) ==
    IF f.template_info = None \/ ~TemplateInfoOk(Unwrap(f.template_info))
    THEN RetErr(Err("ParseTemplateInfo", f.path))
    ELSE RetOk(push_html(f.extended_md),
               [TemplateInfoOf(Unwrap(f.template_info)) EXCEPT
                    !.style = Join(config.content_path, @),
                    !.template = Join(config.content_path, @)],
               <<>>)

\* After the loop: push_html, the template info parsed and its paths made
\* relative to the content path.
MdResult(f, config) ==
    IF f.template_info = None
    THEN RetErr(Err("TemplateInfoMissing", f.path))
    ELSE IF ~TemplateInfoOk(Unwrap(f.template_info))
    THEN RetErr(Err("ParseTemplateInfo", f.path))
    ELSE RetOk(push_html(f.extended_md),
               [TemplateInfoOf(Unwrap(f.template_info)) EXCEPT
                    !.style = Join(config.content_path, @),
                    !.template = Join(config.content_path, @)],
               <<>>)

ProcessMdFinish(s) ==
    /\ At(s, "process_md", "scan")
    /\ Top(s).i > Len(Top(s).input_md)
    /\ MdReturn(s, Top(s), MdResult(Top(s), website[s].config))
    /\ UNCHANGED <<mainVars, status, result, website, outdirs, written, stdout>>

\* ---------------------------------------------------------------- handlers

\* `Ok(website.process_md(..).await?.0)`
IncludeResult(r) == IF r.ok THEN RetOk(r.frag, NoInfo, <<>>) ELSE r

\* IncludeStart with a cache: a document process_md has rendered before is
\* not rendered again, its fragment is returned as it was.
IncludeStart_Cached(s) ==
    /\ At(s, "Include", "start")
    /\ Depth(s) < MaxDepth
    /\ IF PathConfigOk(Top(s).text)
       THEN LET path == Join(website[s].config.content_path,
                             PathConfigOf(Top(s).text))
                hits == {k \in DOMAIN rendered[s] :
                            rendered[s][k].path = path /\ rendered[s][k].ret.ok}
            IN /\ IF hits = {}
                  THEN /\ stack' = Call(s, [Top(s) EXCEPT !.pc = "wait"],
                               NewFrame("process_md", "read", path))
                       /\ UNCHANGED ret
                  ELSE Return(s, IncludeResult(
                           rendered[s][CHOOSE k \in hits : TRUE].ret))
               /\ UNCHANGED status
       ELSE /\ Panic(s)
            /\ UNCHANGED ret
    /\ UNCHANGED <<mainVars, result, website, outdirs, written, stdout,
                   rendered>>

\* IncludeStart rendering the including document in place of the one the
\* block names.
IncludeStart_Self(s) ==
    /\ At(s, "Include", "start")
    /\ Depth(s) < MaxDepth
    /\ IF PathConfigOk(Top(s).text)
       THEN /\ stack' = Call(s, [Top(s) EXCEPT !.pc = "wait"],
                    NewFrame("process_md", "read",
                             stack[s][Len(stack[s]) - 1].path))
            /\ UNCHANGED status
       ELSE Panic(s)
    /\ UNCHANGED <<mainVars, result, ret, website, outdirs, written, stdout,
                   rendered>>

\* Include::handle up to the await of process_md: the configuration parsed
\* (unwrap) and the path joined to the content path.
IncludeStart(s) ==
    /\ At(s, "Include", "start")
    /\ Depth(s) < MaxDepth
    /\ IF PathConfigOk(Top(s).text)
       THEN /\ stack' = Call(s, [Top(s) EXCEPT !.pc = "wait"],
                    NewFrame("process_md", "read",
                        Join(website[s].config.content_path,
                             PathConfigOf(Top(s).text))))
            /\ UNCHANGED status
       ELSE Panic(s)
    /\ UNCHANGED <<mainVars, result, ret, website, outdirs, written, stdout,
                   rendered>>

\* IncludeReturn with the fragment also kept in the site context.
IncludeReturn_StoresHeader(s) ==
    /\ At(s, "Include", "wait")
    /\ Return(s, IncludeResult(ret[s]))
    /\ website' = [website EXCEPT ![s].header = ret[s].frag]
    /\ UNCHANGED <<mainVars, status, result, outdirs, written, stdout, rendered>>

IncludeReturn(s) ==
    /\ At(s, "Include", "wait")
    /\ Return(s, IncludeResult(ret[s]))
    /\ UNCHANGED <<mainVars, status, result, website, outdirs, written, stdout,
                   rendered>>

\* chrono's format("%B %d, %Y")
FormatTime(time) ==
    CASE time = "2021-01-01" -> "January 01, 2021"
      [] time = "2021-02-03" -> "February 03, 2021"
      [] OTHER -> "?"

IndexHead ==
    <<"<div class=\"container list-posts\">",
      "<h1 class=\"list-title\">Blogs</h1>",
      "<h2 class=\"posts-year\">2021</h2>">>

IndexArticle(info) ==
    <<"<article class=\"post-title\">", "<a href=\"/\" class=\"post-link\">",
      info.title, "</a>", "<span class=\"post-date\">", FormatTime(info.time),
      "</span>", "</article>">>

\* Index::handle up to the directory listing.
IndexStart(s) ==
    /\ At(s, "Index", "start")
    /\ IF ~PathConfigOk(Top(s).text)
       THEN /\ Panic(s)
            /\ UNCHANGED ret
       ELSE LET dir == Join(website[s].config.content_path,
                            PathConfigOf(Top(s).text))
            IN IF dir \in DOMAIN World(s).dirs
               THEN /\ stack' = SetTop(s, [Top(s) EXCEPT !.pc = "loop",
                            !.path = dir, !.out = IndexHead,
                            !.entries = World(s).dirs[dir]])
                    /\ UNCHANGED <<status, ret>>
               ELSE /\ Return(s, RetErr(Err("ReadDirectory", dir)))
                    /\ UNCHANGED status
    /\ UNCHANGED <<mainVars, result, website, outdirs, written, stdout, rendered>>

\* NotMarkdown with the extension compared exactly (`!= Some("md")`).
NotMarkdown_CaseSensitive(path) == Extension(path) # Some("md")

\* `path.extension().map(|x| x.eq_ignore_ascii_case("md")) != Some(true)`
NotMarkdown(path) ==
    ~(IsSome(Extension(path)) /\ EqIgnoreCaseMd(Unwrap(Extension(path))))

\* Index::handle, `dir.next_entry()`: a skipped entry, a child handed to
\* process_md, or the end of the listing.
IndexNext(s) ==
    /\ At(s, "Index", "loop")
    /\ Top(s).entries # <<>> /\ ~NotMarkdown(Head(Top(s).entries))
          => Depth(s) < MaxDepth
    /\ LET f == Top(s) IN
        IF f.entries = <<>>
        THEN Return(s, RetOk(f.out \o <<"</div>">>, NoInfo, <<>>))
        ELSE IF NotMarkdown(Head(f.entries))
        THEN /\ stack' = SetTop(s, [f EXCEPT !.entries = Tail(@)])
             /\ UNCHANGED ret
        ELSE /\ stack' = Call(s, [f EXCEPT !.pc = "wait", !.entries = Tail(@)],
                     NewFrame("process_md", "read", Head(f.entries)))
             /\ UNCHANGED ret
    /\ UNCHANGED <<mainVars, status, result, website, outdirs, written, stdout,
                   rendered>>

\* Index::handle after a child's process_md.
IndexChild(s) ==
    /\ At(s, "Index", "wait")
    /\ IF ret[s].ok
       THEN /\ stack' = SetTop(s, [Top(s) EXCEPT !.pc = "loop",
                    !.out = @ \o IndexArticle(ret[s].info)])
            /\ UNCHANGED ret
       ELSE Return(s, ret[s])
    /\ UNCHANGED <<mainVars, status, result, website, outdirs, written, stdout,
                   rendered>>

\* HeaderStart with the handler keeping a clone of the `Arc<Website>`.
HeaderStart_KeepsClone(s) ==
    /\ At(s, "Header", "start")
    /\ IF HeaderConfigOk(Top(s).text)
       THEN /\ LET c == HeaderConfigOf(Top(s).text) IN
               stack' = SetTop(s, [Top(s) EXCEPT !.pc = "loop",
                   !.out = <<"<nav class=\"navbar\" role=\"navigation\"><ul>">>,
                   !.items =
                       [i \in DOMAIN c.left |->
                           [icon |-> c.left[i].icon, href |-> c.left[i].href,
                            right |-> FALSE]]
                       \o [i \in DOMAIN c.right |->
                           [icon |-> c.right[i].icon, href |-> c.right[i].href,
                            right |-> TRUE]]])
            /\ website' = [website EXCEPT ![s].refs = @ + 1]
            /\ UNCHANGED status
       ELSE /\ Panic(s)
            /\ UNCHANGED website
    /\ UNCHANGED <<mainVars, result, ret, outdirs, written, stdout, rendered>>

\* Header::handle up to the first load_asset.
HeaderStart(s) ==
    /\ At(s, "Header", "start")
    /\ IF HeaderConfigOk(Top(s).text)
       THEN /\ LET c == HeaderConfigOf(Top(s).text) IN
               stack' = SetTop(s, [Top(s) EXCEPT !.pc = "loop",
                   !.out = <<"<nav class=\"navbar\" role=\"navigation\"><ul>">>,
                   !.items =
                       [i \in DOMAIN c.left |->
                           [icon |-> c.left[i].icon, href |-> c.left[i].href,
                            right |-> FALSE]]
                       \o [i \in DOMAIN c.right |->
                           [icon |-> c.right[i].icon, href |-> c.right[i].href,
                            right |-> TRUE]]])
            /\ UNCHANGED status
       ELSE Panic(s)
    /\ UNCHANGED <<mainVars, result, ret, website, outdirs, written, stdout,
                   rendered>>

\* Website::load_asset: None when the read fails; the image string when
\* the media type is known (`first_raw().unwrap()` panics when it is not).
AssetPath(config, name) == Join(config.content_path, PathFrom(name))
AssetReadable(w, config, name) == AssetPath(config, name) \in DOMAIN w.files
AssetHasMime(config, name) == IsSome(mime_guess(AssetPath(config, name)))
load_asset(w, config, name) ==
    <<"<img src=\"data:", Unwrap(mime_guess(AssetPath(config, name))),
      ";base64,">> \o base64_encode(w.files[AssetPath(config, name)])
        \o <<"\" />">>

HeaderItem(item, asset) ==
    <<IF item.right THEN "<li style=\"float:right\"><a href=\""
      ELSE "<li><a href=\"", item.href, "\">">> \o asset \o <<"</a></li>">>

\* Header::handle, one item of the left or right group, or the end.
HeaderNext(s) ==
    /\ At(s, "Header", "loop")
    /\ LET f == Top(s) IN
        IF f.items = <<>>
        THEN /\ Return(s, RetOk(f.out \o <<"</nav>">>, NoInfo, <<>>))
             /\ UNCHANGED status
        ELSE LET item == Head(f.items) IN
            IF ~AssetReadable(World(s), website[s].config, item.icon)
            THEN /\ stack' = SetTop(s, [f EXCEPT !.items = Tail(@),
                         !.out = @ \o HeaderItem(item, <<item.icon>>)])
                 /\ UNCHANGED <<status, ret>>
            ELSE IF ~AssetHasMime(website[s].config, item.icon)
            THEN /\ Panic(s)
                 /\ UNCHANGED ret
            ELSE /\ stack' = SetTop(s, [f EXCEPT !.items = Tail(@),
                         !.out = @ \o HeaderItem(item,
                             load_asset(World(s), website[s].config, item.icon))])
                 /\ UNCHANGED <<status, ret>>
    /\ UNCHANGED <<mainVars, result, website, outdirs, written, stdout, rendered>>

\* ---------------------------------------------------- Website::process_file

\* OutputPath without `.with_extension("html")`.
OutputPath_KeepExtension(config, path) ==
    IF StripPrefix(path, config.content_path) = None THEN None
    ELSE Some(Join(config.output_path,
                   Unwrap(StripPrefix(path, config.content_path))))

\* `self.config.output_path.join(path.strip_prefix(&self.config.content_path)?)
\*      .with_extension("html")`
OutputPath(config, path) ==
    IF StripPrefix(path, config.content_path) = None THEN None
    ELSE Some(WithExtension(
            Join(config.output_path,
                 Unwrap(StripPrefix(path, config.content_path))), "html"))

\* The directories create_dir_all makes: the directory and its ancestors.
WithAncestors(dir) == {SubSeq(dir, 1, k) : k \in 1..Len(dir)}

\* ProcessFileStart with the output directory created before the Markdown
\* is rendered.
ProcessFileStart_MkdirFirst(s) ==
    /\ At(s, "process_file", "start")
    /\ LET f == Top(s)
           out == OutputPath(website[s].config, f.path)
       IN IF out = None
          THEN /\ Return(s, RetErr(Err("StripPrefix", f.path)))
               /\ UNCHANGED outdirs
          ELSE /\ stack' = Call(s, [f EXCEPT !.pc = "md",
                                             !.output_path = Unwrap(out)],
                      NewFrame("process_md", "read", f.path))
               /\ outdirs' = [outdirs EXCEPT ![s] =
                                 @ \cup WithAncestors(Unwrap(Parent(Unwrap(out))))]
               /\ UNCHANGED ret
    /\ UNCHANGED <<mainVars, status, result, website, written, stdout, rendered>>

\* process_file up to the await of process_md.
ProcessFileStart(s) ==
    /\ At(s, "process_file", "start")
    /\ LET f == Top(s)
           out == OutputPath(website[s].config, f.path)
       IN IF out = None
          THEN Return(s, RetErr(Err("StripPrefix", f.path)))
          ELSE /\ stack' = Call(s, [f EXCEPT !.pc = "md",
                                             !.output_path = Unwrap(out)],
                      NewFrame("process_md", "read", f.path))
               /\ UNCHANGED ret
    /\ UNCHANGED <<mainVars, status, result, website, outdirs, written, stdout,
                   rendered>>

\* After process_md, up to the await of create_dir_all.
ProcessFileRendered(s) ==
    /\ At(s, "process_file", "md")
    /\ IF ~ret[s].ok
       THEN /\ Return(s, ret[s])
            /\ UNCHANGED status
       ELSE IF Parent(Top(s).output_path) = None
       THEN /\ Panic(s)
            /\ UNCHANGED ret
       ELSE /\ stack' = SetTop(s, [Top(s) EXCEPT !.pc = "mkdir",
                    !.markdown_html = ret[s].frag, !.info = ret[s].info])
            /\ UNCHANGED <<status, ret>>
    /\ UNCHANGED <<mainVars, result, website, outdirs, written, stdout, rendered>>

\* tokio::fs::create_dir_all(out_parent_dir): when it fails, the ancestors
\* it made before failing stay.
ProcessFileCreateDir(s) ==
    /\ At(s, "process_file", "mkdir")
    /\ LET dir == Unwrap(Parent(Top(s).output_path)) IN
        IF World(s).mkdir_ok
        THEN /\ outdirs' = [outdirs EXCEPT ![s] = @ \cup WithAncestors(dir)]
             /\ stack' = SetTop(s, [Top(s) EXCEPT !.pc = "style"])
             /\ UNCHANGED ret
        ELSE /\ Return(s, RetErr(Err("CreateOutputDir", dir)))
             /\ \E k \in 0..(Len(dir) - 1) :
                   outdirs' = [outdirs EXCEPT ![s] =
                                  @ \cup WithAncestors(SubSeq(dir, 1, k))]
    /\ UNCHANGED <<mainVars, status, result, website, written, stdout, rendered>>

\* tokio::fs::read_to_string(&template_info.style)
ProcessFileReadStyle(s) ==
    /\ At(s, "process_file", "style")
    /\ LET f == Top(s) IN
        IF f.info.style \in DOMAIN World(s).files
        THEN /\ stack' = SetTop(s, [f EXCEPT !.pc = "template",
                                             !.css = World(s).files[f.info.style]])
             /\ UNCHANGED ret
        ELSE Return(s, RetErr(Err2("ReadStyle", f.path, f.info.style)))
    /\ UNCHANGED <<mainVars, status, result, website, outdirs, written, stdout,
                   rendered>>

\* tokio::fs::read_to_string(&template_info.template)
ProcessFileReadTemplate(s) ==
    /\ At(s, "process_file", "template")
    /\ LET f == Top(s) IN
        IF f.info.template \in DOMAIN World(s).files
        THEN /\ stack' = SetTop(s, [f EXCEPT !.pc = "favicon",
                                             !.html = World(s).files[f.info.template]])
             /\ UNCHANGED ret
        ELSE Return(s, RetErr(Err2("ReadTemplate", f.path, f.info.template)))
    /\ UNCHANGED <<mainVars, status, result, website, outdirs, written, stdout,
                   rendered>>

\* The page process_file writes once the favicon has been read.
Page(f, header, favicon) ==
    Compose(f.html, f.css, f.markdown_html, header, favicon, f.info.title,
            f.info.description)

\* self.read_to_base64(&template_info.favicon), then the substitutions.
ProcessFileReadFavicon(s) ==
    /\ At(s, "process_file", "favicon")
    /\ LET f == Top(s)
           path == Join(website[s].config.content_path, f.info.favicon)
       IN IF path \in DOMAIN World(s).files
          THEN /\ stack' = SetTop(s, [f EXCEPT !.pc = "write",
                      !.html = Page(f, website[s].header,
                                    base64_encode(World(s).files[path]))])
               /\ UNCHANGED ret
          ELSE Return(s, RetErr(Err("ReadBase64Asset", path)))
    /\ UNCHANGED <<mainVars, status, result, website, outdirs, written, stdout,
                   rendered>>

\* tokio::fs::write(&output_path, html.as_bytes())
ProcessFileWrite(s) ==
    /\ At(s, "process_file", "write")
    /\ LET f == Top(s) IN
        IF World(s).write_ok
        THEN /\ written' = [written EXCEPT ![s] =
                    Append(@, [path |-> f.output_path, html |-> f.html])]
             /\ Return(s, RetOk(<<>>, f.info, f.output_path))
        ELSE /\ Return(s, RetErr(Err("WriteOutput", f.output_path)))
             /\ UNCHANGED written
    /\ UNCHANGED <<mainVars, status, result, website, outdirs, stdout, rendered>>

\* --------------------------------------------------------------------- next

Next ==
    \/ MainSpawn
    \/ MainJoin
    \/ MainReturnOk
    \/ RuntimeShutdown
    \/ \E s \in Tasks : CreateReadConfig(s)
    \/ \E s \in Tasks : CreateWebsite(s)
    \/ \E s \in Tasks : CreateInstallHeader(s)
    \/ \E s \in Tasks : CreateFinish(s)
    \/ \E s \in Tasks : ProcessMdRead(s)
    \/ \E s \in Tasks : ProcessMdStart(s)
    \/ \E s \in Tasks : ProcessMdEnd(s)
    \/ \E s \in Tasks : ProcessMdText(s)
    \/ \E s \in Tasks : ProcessMdDispatch(s)
    \/ \E s \in Tasks : ProcessMdHandled(s)
    \/ \E s \in Tasks : ProcessMdOther(s)
    \/ \E s \in Tasks : ProcessMdFinish(s)
    \/ \E s \in Tasks : IncludeStart(s)
    \/ \E s \in Tasks : IncludeReturn(s)
    \/ \E s \in Tasks : IndexStart(s)
    \/ \E s \in Tasks : IndexNext(s)
    \/ \E s \in Tasks : IndexChild(s)
    \/ \E s \in Tasks : HeaderStart(s)
    \/ \E s \in Tasks : HeaderNext(s)
    \/ \E s \in Tasks : ProcessFileStart(s)
    \/ \E s \in Tasks : ProcessFileRendered(s)
    \/ \E s \in Tasks : ProcessFileCreateDir(s)
    \/ \E s \in Tasks : ProcessFileReadStyle(s)
    \/ \E s \in Tasks : ProcessFileReadTemplate(s)
    \/ \E s \in Tasks : ProcessFileReadFavicon(s)
    \/ \E s \in Tasks : ProcessFileWrite(s)

Spec == Init /\ [][Next]_vars

\* The runtime polls every task that can run, every await on the file
\* system completes, and main goes on when the task it joins has ended.
FairSpec == Spec /\ WF_vars(Next)

\* ------------------------------------------------------------------ claims

\* The documents of a site, read off the input alone.

\* The fence language in force at event j: that of the last fenced
\* block-start before j that no block-end has followed.
LastFence(events, j) ==
    {k \in 1..(j - 1) : events[k].ty \in {"Start", "End"}
        /\ \A m \in (k + 1)..(j - 1) : events[m].ty \notin {"Start", "End"}}

ActiveLang(events, j) ==
    IF \E k \in LastFence(events, j) : events[k].ty = "Start"
    THEN Some(events[CHOOSE k \in LastFence(events, j) : TRUE].lang)
    ELSE None

IsText(events, j) == j \in DOMAIN events /\ events[j].ty = "Text"

\* Event j is a text-run of the metadata block.
IsMetaText(events, j) ==
    IsText(events, j) /\ ActiveLang(events, j) = Some(TEMPLATEINFO)

\* Event j is a text-run of a handler block.
IsHandlerText(events, j) ==
    /\ IsText(events, j)
    /\ ActiveLang(events, j) # None
    /\ StartsWith(Unwrap(ActiveLang(events, j)), CUDDLY)

\* The handler name of the block text-run j is in.
NameAt(events, j) ==
    SubSeq(Unwrap(ActiveLang(events, j)), Len(CUDDLY) + 1,
           Len(Unwrap(ActiveLang(events, j))))

\* The names main.rs registers handlers under.
Registered == {HEADER, INCLUDE, INDEX}

IsUnregisteredText(events, j) ==
    IsHandlerText(events, j) /\ NameAt(events, j) \notin Registered

BuffersNoMeta(events) == \A j \in DOMAIN events : ~IsMetaText(events, j)

HasMetaBlock(events) ==
    \E j \in DOMAIN events : events[j].ty = "Start" /\ events[j].lang = TEMPLATEINFO

\* Every return of process_md so far, and the documents they were of.
Renderings(s) == {rendered[s][k] : k \in DOMAIN rendered[s]}
Exists(s, r) == r.path \in DOMAIN disk[s].md
Input(s, r) == disk[s].md[r.path]
ScanCompleted(s, r) == Exists(s, r) /\ r.at > Len(Input(s, r))

\* The path of the page of a document: the document's path below the
\* content root, put below the output root, with the extension `html`.
Mirror(config, path) ==
    LET rel == SubSeq(path, Len(config.content_path) + 1, Len(path))
    IN config.output_path
        \o [k \in DOMAIN rel |->
              IF k = Len(rel) THEN <<rel[k][1], "html">> ELSE rel[k]]

Below(config, path) ==
    /\ Len(path) > Len(config.content_path)
    /\ SubSeq(path, 1, Len(config.content_path)) = config.content_path

PagesWritten(s) == {written[s][k].path : k \in DOMAIN written[s]}

BasePath(s) == Join(disk[s].config.content_path, disk[s].config.base_file)
HeaderPath(s) == Join(disk[s].config.content_path, disk[s].config.header_file)

\* C1 (as stated): every return of process_md for a document that buffers no
\* metadata text is the error TemplateInfoMissing carrying the document's
\* path, and no page of such a document is written.
C1_AlwaysTemplateInfoMissing ==
    \A s \in Tasks : \A r \in Renderings(s) :
        Exists(s, r) /\ BuffersNoMeta(Input(s, r)) =>
            /\ r.ret = RetErr(Err("TemplateInfoMissing", r.path))
            /\ Mirror(disk[s].config, r.path) \notin PagesWritten(s)

\* C1 (amended): process_md never succeeds on a document that buffers no
\* metadata text: when the scan of its events comes to its end the error is
\* TemplateInfoMissing carrying the document's path, and when a handler
\* block of the document fails first the error is that failure; no page of
\* such a document is written.
C1_NoMetadataFails ==
    \A s \in Tasks : \A r \in Renderings(s) :
        Exists(s, r) /\ BuffersNoMeta(Input(s, r)) =>
            /\ ~r.ret.ok
            /\ ScanCompleted(s, r) =>
                  r.ret = RetErr(Err("TemplateInfoMissing", r.path))
            /\ ~ScanCompleted(s, r) =>
                  r.ret.err.kind # "TemplateInfoMissing"
                      \/ r.ret.err.path # r.path
            /\ Mirror(disk[s].config, r.path) \notin PagesWritten(s)

\* C1, witness: a site whose base document has a metadata block without a
\* text-run has ended with TemplateInfoMissing for it and nothing written.
C1_Witness ==
    \E s \in Tasks :
        /\ status[s] = "finished"
        /\ result[s] = Failed(Err("TemplateInfoMissing", BasePath(s)))
        /\ HasMetaBlock(disk[s].md[BasePath(s)])
        /\ BuffersNoMeta(disk[s].md[BasePath(s)])
        /\ written[s] = <<>>

\* The events of the input that process_md passes on (itself or replaced):
\* all but the block-start and block-end of metadata and handler blocks and
\* the text-runs of the metadata block.
Emitted(events, j) ==
    /\ ~(events[j].ty \in {"Start", "End"}
          /\ (events[j].lang = TEMPLATEINFO \/ StartsWith(events[j].lang, CUDDLY)))
    /\ ~IsMetaText(events, j)

EmittedBefore(events, n) ==
    {j \in DOMAIN events : j < n /\ Emitted(events, j)}

\* The input event the k-th event passed on comes from.
SourceOf(events, k) ==
    CHOOSE j \in DOMAIN events :
        Emitted(events, j) /\ Cardinality(EmittedBefore(events, j)) = k - 1

\* `out` holds, in order, one event for each event that is passed on among
\* the first n - 1 events of the input, and so none for an event of the
\* metadata block.
NoMetadataEvents(events, n, out) ==
    /\ Len(out) = Cardinality(EmittedBefore(events, n))
    /\ \A k \in DOMAIN out :
          /\ ~(out[k].ty \in {"Start", "End"} /\ out[k].lang = TEMPLATEINFO)
          /\ IF events[SourceOf(events, k)].ty = "Text"
             THEN out[k].ty \in {"Text", "Html"}
             ELSE out[k] = events[SourceOf(events, k)]

\* The process_md calls in progress in task s.
MdFrames(s) ==
    {stack[s][k] : k \in {m \in DOMAIN stack[s] : stack[s][m].fn = "process_md"}}

\* C2: for a document with a metadata block, the events process_md collects
\* for push_html hold neither the block-start nor the block-end of the
\* metadata block nor any text-run met while the fence language was
\* `templateinfo`: they are, in order, the other events of the document.
C2_MetadataSuppressed ==
    \A s \in Tasks :
        /\ \A r \in Renderings(s) :
              Exists(s, r) /\ HasMetaBlock(Input(s, r)) =>
                  NoMetadataEvents(Input(s, r), r.at, r.events)
        /\ \A f \in MdFrames(s) :
              HasMetaBlock(f.input_md) =>
                  NoMetadataEvents(f.input_md, f.i, f.extended_md)

\* C2, witness: a document with metadata text-runs and other events has
\* been rendered.
C2_Witness ==
    \E s \in Tasks : \E r \in Renderings(s) :
        /\ r.ret.ok
        /\ \E j \in DOMAIN Input(s, r) : IsMetaText(Input(s, r), j)
        /\ Len(r.events) >= 3

\* C3: a text-run in a `cuddly_` block whose name is not registered ends
\* process_md there with MissingHandler carrying the name (the language
\* without its seven-character prefix) and the path of the document; no
\* call gets past such a text-run, no fragment is returned and no page of
\* the document is written.
C3_MissingHandler ==
    \A s \in Tasks :
        /\ \A r \in Renderings(s) : Exists(s, r) =>
              /\ \A j \in 1..(r.at - 1) : ~IsUnregisteredText(Input(s, r), j)
              /\ IsUnregisteredText(Input(s, r), r.at) =>
                    /\ r.ret = RetErr(MissingHandler(r.path,
                                        NameAt(Input(s, r), r.at)))
                    /\ Mirror(disk[s].config, r.path) \notin PagesWritten(s)
        /\ \A f \in MdFrames(s) :
              /\ \A j \in 1..(f.i - 1) : ~IsUnregisteredText(f.input_md, j)
              /\ f.pc = "handler" => ~IsUnregisteredText(f.input_md, f.i)
        /\ result[s].err.kind = "MissingHandler" => written[s] = <<>>

\* C3, witness: a site has ended with MissingHandler for the name `nope`
\* used in an included document, carrying that document's path.
C3_Witness ==
    \E s \in Tasks :
        /\ status[s] = "finished"
        /\ result[s] = Failed(MissingHandler(InContent("b.md"), NOPE))
        /\ BasePath(s) # InContent("b.md")
        /\ written[s] = <<>>

\* C5: once main has returned, it has returned Ok exactly when every task
\* returned Ok, and otherwise the error of a task that returned one or
\* WebsiteJoin for a task that panicked.
C5_AggregateOutcome ==
    mainPc \in {"returned", "exited"} =>
        /\ mainResult = Ok <=>
              \A s \in Tasks : status[s] = "finished" /\ result[s] = Ok
        /\ mainResult # Ok =>
              /\ mainResult.kind = "Err"
              /\ \E s \in Tasks :
                    \/ status[s] = "panicked"
                          /\ mainResult = Failed(Err("WebsiteJoin", <<>>))
                    \/ status[s] = "finished" /\ result[s] = mainResult
        /\ (\E s \in Tasks : status[s] = "panicked"
                \/ (status[s] = "finished" /\ result[s].kind = "Err"))
              => mainResult.kind = "Err"

\* C5, witness: main has returned WebsiteJoin after a first site that
\* returned Ok and a second that panicked.
C5_Witness ==
    /\ mainPc = "returned"
    /\ Len(args) = 2
    /\ status[1] = "finished" /\ result[1] = Ok
    /\ status[2] = "panicked"
    /\ mainResult = Failed(Err("WebsiteJoin", <<>>))

\* C4 (as stated): when the process ends, every task has run to its own
\* completion.
C4_SiblingsComplete ==
    mainPc = "exited" =>
        \A s \in Tasks : status[s] \in {"finished", "panicked"}

\* C6 (as stated): when a document reached from the base document through a
\* handler block has failed for want of metadata, the site build still
\* completes and writes the page of the base document.
C6_FailureConfined ==
    \A s \in Tasks :
        (/\ status[s] = "finished"
         /\ \E r \in Renderings(s) :
               /\ r.path \notin {BasePath(s), HeaderPath(s)}
               /\ r.ret = RetErr(Err("TemplateInfoMissing", r.path)))
        => /\ result[s] = Ok
           /\ Mirror(disk[s].config, BasePath(s)) \in PagesWritten(s)

\* The text-runs of the metadata block, after glyph substitution, one after
\* the other in document order.
MetaConcat(events) ==
    Flatten([j \in DOMAIN events |->
                IF IsMetaText(events, j) THEN EmojiReplace(events[j].text)
                ELSE <<>>])

\* C7 (as stated): the metadata source process_md deserializes is the
\* concatenation of all the text-runs of the metadata block.
C7_SourceIsConcatenation ==
    \A s \in Tasks : \A r \in Renderings(s) :
        ScanCompleted(s, r) /\ ~BuffersNoMeta(Input(s, r)) =>
            r.source = Some(MetaConcat(Input(s, r)))

\* a occurs in b as a run of consecutive tokens.
IsInfix(a, b) ==
    \E i \in 0..(Len(b) - Len(a)) : SubSeq(b, i + 1, i + Len(a)) = a

\* Event j is the text-run of an `include` block with a readable
\* configuration, and the document it names.
IsIncludeText(events, j) ==
    /\ IsHandlerText(events, j)
    /\ NameAt(events, j) = INCLUDE
    /\ PathConfigOk(EmojiReplace(events[j].text))

IncludeTarget(config, events, j) ==
    Join(config.content_path, PathConfigOf(EmojiReplace(events[j].text)))

\* C8: in the events process_md collects for document A, the text-run of an
\* `include` block naming B has become, at its place, a raw-markup event
\* carrying exactly a fragment process_md returned for B, which A's fragment
\* then holds; and when B includes C in turn, A's fragment holds C's.
C8_IncludeInlined ==
    \A s \in Tasks : \A k \in DOMAIN rendered[s] :
        LET r == rendered[s][k] IN
        Exists(s, r) =>
            \A j \in 1..(r.at - 1) : IsIncludeText(Input(s, r), j) =>
                LET pos == Cardinality(EmittedBefore(Input(s, r), j)) + 1
                    B == IncludeTarget(disk[s].config, Input(s, r), j)
                IN /\ pos <= Len(r.events)
                   /\ r.events[pos].ty = "Html"
                   /\ \E kb \in 1..(k - 1) :
                         /\ rendered[s][kb].path = B
                         /\ rendered[s][kb].ret.ok
                         /\ rendered[s][kb].ret.frag = r.events[pos].text
                   /\ r.ret.ok => IsInfix(r.events[pos].text, r.ret.frag)
                   /\ r.ret.ok =>
                         \A jb \in DOMAIN disk[s].md[B] :
                             IsIncludeText(disk[s].md[B], jb) =>
                                 \E kc \in 1..(k - 1) :
                                     /\ rendered[s][kc].path =
                                           IncludeTarget(disk[s].config,
                                                         disk[s].md[B], jb)
                                     /\ rendered[s][kc].ret.ok
                                     /\ IsInfix(rendered[s][kc].ret.frag,
                                                r.ret.frag)

\* C8, witness: the base document includes b.md, which includes c.md, and
\* its fragment holds the body of c.md inside that of b.md.
C8_Witness ==
    \E s \in Tasks : \E a, b, c \in Renderings(s) :
        /\ a.path = BasePath(s) /\ a.ret.ok
        /\ b.path = InContent("b.md") /\ b.ret.ok
        /\ c.path = InContent("c.md") /\ c.ret.ok
        /\ IsInfix(<<"c-body">>, c.ret.frag)
        /\ IsInfix(c.ret.frag, b.ret.frag)
        /\ IsInfix(<<"a-pre", "</p>">> \o b.ret.frag \o <<"<p>", "a-post">>,
                   a.ret.frag)

\* C9 (as stated): when a build has succeeded, every document rendered
\* (the base document and those rendered through include and index blocks)
\* has exactly one page written at its mirrored path.
C9_EveryDocumentHasPage ==
    \A s \in Tasks :
        status[s] = "finished" /\ result[s] = Ok =>
            \A r \in Renderings(s) :
                r.ret.ok /\ r.path # HeaderPath(s) =>
                    Cardinality({k \in DOMAIN written[s] :
                        written[s][k].path = Mirror(disk[s].config, r.path)}) = 1

\* C9 (amended): only the base document, which process_file renders, has a
\* page: at most one file is written, at the path that mirrors the base
\* document's below the output root with the extension `html`, after the
\* directories above it have been created, and exactly one when the build
\* succeeds; the documents rendered through include and index blocks have
\* none.
C9_BasePageOnly ==
    \A s \in Tasks :
        /\ Len(written[s]) <= 1
        /\ \A k \in DOMAIN written[s] :
              /\ Below(disk[s].config, BasePath(s))
              /\ written[s][k].path = Mirror(disk[s].config, BasePath(s))
              /\ \A m \in 1..(Len(written[s][k].path) - 1) :
                    SubSeq(written[s][k].path, 1, m) \in outdirs[s]
        /\ status[s] = "finished" /\ result[s] = Ok => Len(written[s]) = 1

\* C9, witness: a build has succeeded in which a document was rendered
\* through a handler block, with the one page of the base document written.
C9_Witness ==
    \E s \in Tasks :
        /\ status[s] = "finished" /\ result[s] = Ok
        /\ Len(written[s]) = 1
        /\ \E r \in Renderings(s) :
              r.ret.ok /\ r.path \notin {BasePath(s), HeaderPath(s)}

\* The output directories that hold a page but none named `index`.
NeedsIndex(s) ==
    {d \in {SubSeq(p, 1, Len(p) - 1) : p \in PagesWritten(s)} :
        \A p \in PagesWritten(s) :
            SubSeq(p, 1, Len(p) - 1) = d => p[Len(p)][1] # "index"}

\* What create has reported beyond the elapsed time.
Reports(s) == {k \in DOMAIN stdout[s] : stdout[s][k] # "elapsed"}

\* C10 (as stated): when a build has succeeded there is one "needs index"
\* report for each output directory that holds a page but none named index.
C10_NeedsIndexReported ==
    \A s \in Tasks :
        status[s] = "finished" /\ result[s] = Ok =>
            Cardinality(Reports(s)) = Cardinality(NeedsIndex(s))

\* The six markers, in the order process_file substitutes them.
Markers ==
    <<"<<<PUT THE STYLESHEET HERE>>>", "<<<PUT THE MAIN CONTENT HERE>>>",
      "<<<PUT THE HEADER HERE>>>", "<<<PUT THE FAVICON HERE>>>",
      "<<<PUT THE TITLE HERE>>>", "<<<PUT THE DESCRIPTION HERE>>>">>

\* Every order of the six substitutions.
Orders ==
    {o \in [1..6 -> 1..6] : \A i, j \in 1..6 : o[i] = o[j] => i = j}

\* The substitutions order[k..6] applied to html, frags[m] replacing
\* Markers[m].
RECURSIVE ComposeFrom(_, _, _, _)
ComposeFrom(k, order, html, frags) ==
    IF k > 6 THEN html
    ELSE ComposeFrom(k + 1, order,
                     Replace(html, Markers[order[k]], frags[order[k]]), frags)

\* What process_file, about to write, substituted for the six markers, and
\* the skeleton it substituted them in.
FragmentsOf(s) ==
    LET f == Top(s) IN
    <<f.css, f.markdown_html, website[s].header,
      base64_encode(disk[s].files[Join(disk[s].config.content_path,
                                       f.info.favicon)]),
      <<f.info.title>>, <<f.info.description>> >>

SkeletonOf(s) == disk[s].files[Top(s).info.template]

\* C11 (as stated): the page process_file is about to write is what the six
\* substitutions give in any order, whatever the fragments hold.
C11_OrderIndependent ==
    \A s \in Tasks :
        At(s, "process_file", "write") =>
            \A o \in Orders :
                ComposeFrom(1, o, SkeletonOf(s), FragmentsOf(s)) = Top(s).html

\* C12 (as stated): no step of the header handler's loop over the left and
\* right items fails the handler, whatever becomes of the item's asset.
C12_HeaderNeverFails ==
    [][\A s \in Tasks :
          At(s, "Header", "loop") => status'[s] # "panicked"]_vars

\* A call of process_md, of process_file or of a handler is in progress.
Processing(s) == \E k \in DOMAIN stack[s] : stack[s][k].fn # "create"

\* C13 (as stated): once the Website is built, and with that the first call
\* of process_md on it started, no field of it is written.
C13_NeverWritten ==
    [][\A s \in Tasks : website[s].built => website'[s] = website[s]]_vars

\* C13 (amended): the Website is built once and is not written while any
\* call of process_md, of process_file or of a handler on it is in
\* progress. The one write after construction is made by create between
\* its two phases: after the header's process_md has returned and before
\* process_file starts on the base document, with the Website held by a
\* single reference, and it sets the header field, still empty, and no
\* other field.
C13_WrittenBetweenPhases ==
    [][\A s \in Tasks :
          website[s].built /\ website'[s] # website[s] =>
              /\ ~Processing(s)
              /\ At(s, "create", "header")
              /\ ret[s].ok
              /\ website[s].refs = 1
              /\ website[s].header = <<>>
              /\ website'[s] = [website[s] EXCEPT !.header = ret[s].frag]
              /\ stack'[s][Len(stack'[s])].fn = "process_file"
              /\ stack'[s][Len(stack'[s])].pc = "start"]_vars

\* C13, witness: the header has been stored in the Website and process_file
\* is in progress on the base document, inside an include handler.
C13_Witness ==
    \E s \in Tasks :
        /\ website[s].built
        /\ website[s].header # <<>>
        /\ \E k \in DOMAIN stack[s] : stack[s][k].fn = "process_file"
        /\ At(s, "Include", "wait")

\* Event j is the text-run of an `index` block over a directory that can
\* be listed, and the directory.
IndexTarget(config, events, j) ==
    Join(config.content_path, PathConfigOf(EmojiReplace(events[j].text)))

IsIndexText(s, events, j) ==
    /\ IsHandlerText(events, j)
    /\ NameAt(events, j) = INDEX
    /\ PathConfigOk(EmojiReplace(events[j].text))
    /\ IndexTarget(disk[s].config, events, j) \in DOMAIN disk[s].dirs

\* The Markdown children of a directory, in listing order.
MarkdownChildren(s, dir) ==
    SelectSeq(disk[s].dirs[dir], LAMBDA p : ~NotMarkdown(p))

\* The references to document p in the events of a document: the include
\* blocks that name it and the entries for it in the listings of the
\* directories its index blocks name.
RefsTo(s, events, p) ==
    Cardinality({j \in DOMAIN events :
        IsIncludeText(events, j)
            /\ IncludeTarget(disk[s].config, events, j) = p})
    + Cardinality({jk \in (DOMAIN events) \X (1..4) :
        /\ IsIndexText(s, events, jk[1])
        /\ jk[2] \in DOMAIN disk[s].dirs[IndexTarget(disk[s].config, events, jk[1])]
        /\ disk[s].dirs[IndexTarget(disk[s].config, events, jk[1])][jk[2]] = p
        /\ ~NotMarkdown(p)})

\* The references to p in the documents of the first n renderings.
RECURSIVE RefsReached(_, _, _)
RefsReached(s, n, p) ==
    IF n = 0 THEN 0
    ELSE RefsReached(s, n - 1, p) + RefsTo(s, Input(s, rendered[s][n]), p)

\* How many times process_md has returned for document p.
TimesRendered(s, p) ==
    Cardinality({k \in DOMAIN rendered[s] : rendered[s][k].path = p})

\* When a build has succeeded, each document has been rendered once for
\* each reference to it in the documents rendered, and once more when
\* create itself renders it as the header or the base document.
RenderedPerReference ==
    \A s \in Tasks :
        status[s] = "finished" /\ result[s] = Ok =>
            \A p \in DOMAIN disk[s].md :
                TimesRendered(s, p) =
                    RefsReached(s, Len(rendered[s]), p)
                    + (IF p = HeaderPath(s) THEN 1 ELSE 0)
                    + (IF p = BasePath(s) THEN 1 ELSE 0)

\* An include handler with a readable configuration, and an index handler
\* at a Markdown child, go on by calling process_md, which starts by reading
\* the document.
ReferenceRenders ==
    \A s \in Tasks :
        \/ At(s, "Include", "start") /\ PathConfigOk(Top(s).text)
        \/ /\ At(s, "Index", "loop")
           /\ Top(s).entries # <<>>
           /\ ~NotMarkdown(Head(Top(s).entries))
        => \/ stack'[s] = stack[s]
           \/ /\ Len(stack'[s]) = Len(stack[s]) + 1
              /\ stack'[s][Len(stack'[s])].fn = "process_md"
              /\ stack'[s][Len(stack'[s])].pc = "read"

\* C14: documents are not deduplicated. Within a build every reference
\* that is reached (an include block, a listing entry of an index block)
\* starts a call of process_md that reads the document anew, and when the
\* build has succeeded each document has been rendered as many times as it
\* was referenced in the documents rendered, counting every rendering of the
\* referring document (and once more as the header or base document).
C14_NoDeduplication ==
    []RenderedPerReference /\ [][ReferenceRenders]_vars

\* C14, witness: a build has succeeded whose base document includes b.md
\* twice, b.md including c.md: both were rendered twice.
C14_Witness ==
    \E s \in Tasks :
        /\ status[s] = "finished" /\ result[s] = Ok
        /\ RefsTo(s, disk[s].md[BasePath(s)], InContent("b.md")) = 2
        /\ TimesRendered(s, InContent("b.md")) = 2
        /\ TimesRendered(s, InContent("c.md")) = 2

\* The metadata text-runs among the first n - 1 events.
MetaTextsBefore(events, n) == {j \in 1..(n - 1) : IsMetaText(events, j)}

\* Of the events of a document, the first n - 1 have been scanned into the
\* events `out` and the metadata buffer `source`: every text-run among them
\* has gone where the fence language in force sends it. In a `templateinfo`
\* block it is not passed on and the buffer holds the last such run; in a
\* `cuddly_` block a raw-markup event stands in its place; in a block of a
\* known grammar a raw-markup event with the highlighter's output of the
\* text; anywhere else a text event with the text. The text is in every
\* case the one glyph substitution gives.
Routed(events, n, out, source) ==
    /\ Len(out) = Cardinality(EmittedBefore(events, n))
    /\ source = IF MetaTextsBefore(events, n) = {} THEN None
                ELSE Some(EmojiReplace(events[
                         CHOOSE j \in MetaTextsBefore(events, n) :
                             \A m \in MetaTextsBefore(events, n) : m <= j].text))
    /\ \A j \in 1..(n - 1) : IsText(events, j) =>
          LET lang == ActiveLang(events, j)
              text == EmojiReplace(events[j].text)
              pos == Cardinality(EmittedBefore(events, j)) + 1
          IN IF lang = Some(TEMPLATEINFO) THEN ~Emitted(events, j)
             ELSE IF lang # None /\ StartsWith(Unwrap(lang), CUDDLY)
             THEN out[pos].ty = "Html"
             ELSE IF lang # None /\ Unwrap(lang) \in KnownSyntaxes
             THEN out[pos] = Html(highlighted_html_for_string(text, Unwrap(lang)))
             ELSE out[pos] = Text(text)

\* C15: in every call of process_md, in progress or returned, the text-runs
\* scanned so far have been routed by the active fence language alone, with
\* the precedence templateinfo, `cuddly_`, known grammar, plain text, after
\* glyph substitution; and the language the loop holds is the one set by
\* the last fenced block-start unless a fenced block-end has followed it.
C15_TextRouting ==
    \A s \in Tasks :
        /\ \A r \in Renderings(s) :
              Exists(s, r) => Routed(Input(s, r), r.at, r.events, r.source)
        /\ \A f \in MdFrames(s) :
              /\ Routed(f.input_md, f.i, f.extended_md, f.template_info)
              /\ f.cur_lang = ActiveLang(f.input_md, f.i)

\* C15, witness: a document has been rendered that holds text-runs outside
\* any block, after a closed block, in a metadata block, in an include
\* block, in a block of a known grammar, of an unknown one and of none.
C15_Witness ==
    \E s \in Tasks : \E r \in Renderings(s) :
        /\ args[s] = "routes.toml" /\ r.path = BasePath(s) /\ r.ret.ok
        /\ Text(<<"intro", "U+2764">>) = r.events[2]
        /\ \E k \in DOMAIN r.events :
              r.events[k] = Html(highlighted_html_for_string(
                                <<"fn", "U+2764", "<b>">>, <<"r","s">>))
        /\ \E k \in DOMAIN r.events : r.events[k] = Text(<<"raw", "U+1F604">>)
        /\ \E k \in DOMAIN r.events : r.events[k] = Text(<<"bare">>)
        /\ \E k \in DOMAIN r.events :
              r.events[k].ty = "Html" /\ IsInfix(<<"b-body">>, r.events[k].text)
        /\ r.source = Some(GoodMeta("U+1F604"))

\* The returns of process_md for the header document, and the first.
HeaderReturns(s) ==
    {k \in DOMAIN rendered[s] : rendered[s][k].path = HeaderPath(s)}

FirstHeaderReturn(s) ==
    CHOOSE k \in HeaderReturns(s) : \A m \in HeaderReturns(s) : k <= m

\* process_file has been called on the base document.
BaseStarted(s) ==
    \/ \E k \in DOMAIN stack[s] : stack[s][k].fn = "process_file"
    \/ \E k \in DOMAIN rendered[s] : rendered[s][k].path = BasePath(s)
    \/ written[s] # <<>>

\* The page the six substitutions give for the last document process_md
\* has returned, with the given header fragment.
PageWith(s, header) ==
    LET b == rendered[s][Len(rendered[s])].ret IN
    Compose(disk[s].files[b.info.template], disk[s].files[b.info.style],
            b.frag, header,
            base64_encode(disk[s].files[Join(disk[s].config.content_path,
                                             b.info.favicon)]),
            b.info.title, b.info.description)

\* C16: processing of the base document starts only after process_md has
\* returned the header document's fragment and the site context holds it,
\* so a page written has that fragment at the header marker; and when the
\* header document has failed to render, create ends with its error, the
\* base document not processed and nothing written.
C16_HeaderBeforeBase ==
    \A s \in Tasks :
        /\ BaseStarted(s) =>
              /\ HeaderReturns(s) # {}
              /\ rendered[s][FirstHeaderReturn(s)].ret.ok
              /\ website[s].header = rendered[s][FirstHeaderReturn(s)].ret.frag
              /\ \A k \in DOMAIN rendered[s] :
                    rendered[s][k].path = BasePath(s) => k > FirstHeaderReturn(s)
        /\ \A k \in DOMAIN written[s] :
              written[s][k].html =
                  PageWith(s, rendered[s][FirstHeaderReturn(s)].ret.frag)
        /\ (/\ HeaderReturns(s) # {}
            /\ ~rendered[s][FirstHeaderReturn(s)].ret.ok
            /\ status[s] # "running")
           => /\ ~BaseStarted(s)
              /\ status[s] = "finished" => result[s] =
                    Failed(rendered[s][FirstHeaderReturn(s)].ret.err)

\* C16, witness: a page has been written whose header marker was replaced
\* by the navigation bar the header document rendered to.
C16_Witness ==
    \E s \in Tasks :
        /\ written[s] # <<>>
        /\ IsInfix(<<"About", "</a></li>", "</nav>">>, website[s].header)
        /\ ~IsInfix(<<"<<<PUT THE HEADER HERE>>>">>, written[s][1].html)
        /\ IsInfix(website[s].header, written[s][1].html)

\* The last component of the path has the markup extension, in any case.
IsMarkup(p) == p # <<>> /\ p[Len(p)][2] \in {"md", "MD", "Md", "mD"}

\* The metadata process_md has returned for document p.
InfoOf(s, p) ==
    IF \E r \in Renderings(s) : r.path = p /\ r.ret.ok
    THEN (CHOOSE r \in Renderings(s) : r.path = p /\ r.ret.ok).ret.info
    ELSE NoInfo

\* The summary entries of the markup children among the entries, in order.
Summaries(s, entries) ==
    Flatten([k \in DOMAIN entries |->
                IF IsMarkup(entries[k]) THEN IndexArticle(InfoOf(s, entries[k]))
                ELSE <<>>])

\* The index handler calls in progress, past the directory listing.
IndexFrames(s) ==
    {stack[s][k] : k \in {m \in DOMAIN stack[s] :
        stack[s][m].fn = "Index" /\ stack[s][m].pc \in {"loop", "wait"}}}

\* An index handler in progress has taken a prefix of the listing, holds the
\* rest, and has emitted one summary entry for each markup child taken and
\* rendered, in listing order.
IndexSoFar(s, f) ==
    LET all == disk[s].dirs[f.path]
        n == Len(all) - Len(f.entries)
    IN /\ n >= 0
       /\ f.entries = SubSeq(all, n + 1, Len(all))
       /\ f.pc = "wait" => n >= 1 /\ IsMarkup(all[n])
       /\ f.out = IndexHead \o Summaries(s,
                      SubSeq(all, 1, IF f.pc = "wait" THEN n - 1 ELSE n))

\* Where an index block's handler has returned, the fragment put in its
\* place lists every markup child of the directory, in listing order.
IndexDone(s, r) ==
    \A j \in 1..(r.at - 1) : IsIndexText(s, Input(s, r), j) =>
        r.events[Cardinality(EmittedBefore(Input(s, r), j)) + 1] =
            Html(IndexHead
                 \o Summaries(s, disk[s].dirs[
                        IndexTarget(disk[s].config, Input(s, r), j)])
                 \o <<"</div>">>)

IndexInvariant ==
    \A s \in Tasks :
        /\ \A f \in IndexFrames(s) : IndexSoFar(s, f)
        /\ \A r \in Renderings(s) : Exists(s, r) => IndexDone(s, r)

\* A step of the index handler at an entry of the listing renders it, once,
\* exactly when it is a markup child; a child that fails makes the handler
\* return the child's error, and process_md passes that on with no event
\* added for the block.
IndexStep ==
    \A s \in Tasks :
        /\ (At(s, "Index", "loop") /\ Top(s).entries # <<>>
                /\ stack'[s] # stack[s]) =>
              IF IsMarkup(Head(Top(s).entries))
              THEN /\ Len(stack'[s]) = Len(stack[s]) + 1
                   /\ stack'[s][Len(stack[s])].entries = Tail(Top(s).entries)
                   /\ stack'[s][Len(stack'[s])].fn = "process_md"
                   /\ stack'[s][Len(stack'[s])].pc = "read"
                   /\ stack'[s][Len(stack'[s])].path = Head(Top(s).entries)
              ELSE /\ Len(stack'[s]) = Len(stack[s])
                   /\ Top(s)' = [Top(s) EXCEPT !.entries = Tail(@)]
        /\ (At(s, "Index", "wait") /\ ~ret[s].ok /\ stack'[s] # stack[s]) =>
              /\ stack'[s] = Pop(s)[s]
              /\ ret'[s] = ret[s]
              /\ Top(s)'.fn = "process_md" /\ Top(s)'.pc = "handler"
        /\ (At(s, "process_md", "handler") /\ ~ret[s].ok
                /\ stack'[s] # stack[s]) =>
              /\ stack'[s] = Pop(s)[s]
              /\ ret'[s] = ret[s]
              /\ rendered'[s] = Append(rendered[s], Rendering(Top(s), ret[s]))

\* C17: the index handler emits one summary entry (title and formatted
\* time) for each child of the directory with the markup extension in any
\* case, in listing order, renders each such child once and no other entry,
\* and fails with the error of the first child that fails to render, no
\* fragment being emitted.
C17_IndexListing ==
    []IndexInvariant /\ [][IndexStep]_vars

\* C17, witness: a document with an index block over `posts` has been
\* rendered: p2.MD and p1.md are listed in that order, each rendered once,
\* notes.txt and drafts not at all.
C17_Witness ==
    \E s \in Tasks : \E r \in Renderings(s) :
        /\ r.ret.ok
        /\ \E j \in DOMAIN Input(s, r) : IsIndexText(s, Input(s, r), j)
        /\ IsInfix(<<"Post2", "</a>", "<span class=\"post-date\">",
                     "February 03, 2021", "</span>", "</article>",
                     "<article class=\"post-title\">",
                     "<a href=\"/\" class=\"post-link\">",
                     "Post1", "</a>", "<span class=\"post-date\">",
                     "January 01, 2021", "</span>", "</article>", "</div>">>,
                   r.ret.frag)
        /\ TimesRendered(s, Posts \o <<File("p1", "md")>>) = 1
        /\ TimesRendered(s, Posts \o <<File("p2", "MD")>>) = 1
        /\ TimesRendered(s, Posts \o <<File("notes", "txt")>>) = 0
        /\ TimesRendered(s, Posts \o <<Dir("drafts")>>) = 0

\* The documents a document of the site w refers to: those its include
\* blocks name and the markup children of the directories its index blocks
\* name.
DocRefs(w, p) ==
    IF p \notin DOMAIN w.md THEN {}
    ELSE LET ev == w.md[p]
             texts == {j \in DOMAIN ev :
                          /\ IsHandlerText(ev, j)
                          /\ PathConfigOk(EmojiReplace(ev[j].text))}
             target(j) == Join(w.config.content_path,
                               PathConfigOf(EmojiReplace(ev[j].text)))
         IN {target(j) : j \in {m \in texts : NameAt(ev, m) = INCLUDE}}
            \cup UNION {
                {w.dirs[d][k] :
                    k \in {m \in DOMAIN w.dirs[d] : IsMarkup(w.dirs[d][m])}} :
                d \in {target(j) : j \in {m \in texts :
                          NameAt(ev, m) = INDEX /\ target(m) \in DOMAIN w.dirs}}}

\* The documents reached from those of S in at most n references.
RECURSIVE ReachFrom(_, _, _)
ReachFrom(w, S, n) ==
    LET T == S \cup UNION {DocRefs(w, p) : p \in S}
    IN IF n = 0 \/ T = S THEN S ELSE ReachFrom(w, T, n - 1)

Reachable(w, S) == ReachFrom(w, S, Cardinality(DOMAIN w.md) + 1)

\* No document of the site reached from the header or the base document is
\* reached from itself.
AcyclicSite(w) ==
    \A p \in Reachable(w, {Join(w.config.content_path, w.config.header_file),
                           Join(w.config.content_path, w.config.base_file)}) :
        p \notin Reachable(w, DocRefs(w, p))

Acyclic(s) == s \in Tasks /\ AcyclicSite(disk[s])

\* The task has ended: create has returned, or has panicked, or was dropped
\* with the runtime.
Ended(s) ==
    s \in Tasks => status[s] \in {"finished", "panicked", "cancelled"}

\* C18 (as stated): a site whose reference graph is acyclic never ends
\* otherwise than by create returning Ok or an Err.
C18_EndsByReturning ==
    \A s \in Tasks : Acyclic(s) => status[s] \notin {"panicked", "cancelled"}

\* C18 (amended): a task building a site whose reference graph, reached
\* from the header and base documents through include and index blocks, is
\* acyclic eventually ends: create returns Ok or an Err, or panics, or is
\* dropped when main has returned first. Its recursion is never deeper than
\* the longest chain of references, and nothing but the graph bounds it: a
\* site whose create has returned, or whose recursion is not at the bound,
\* may be cyclic, but one at the bound is.
C18_AcyclicTerminates ==
    /\ [](\A s \in Tasks : Depth(s) >= MaxDepth => ~Acyclic(s))
    /\ <>[](\A s \in Tasks : Acyclic(s) => Ended(s))

\* C18, witness: a site whose base document includes b.md, which includes
\* c.md, has been built: the recursion went three calls deep and returned.
C18_Witness ==
    \E s \in Tasks :
        /\ Acyclic(s)
        /\ InContent("c.md") \in DocRefs(disk[s], InContent("b.md"))
        /\ InContent("b.md") \in DocRefs(disk[s], BasePath(s))
        /\ status[s] = "finished" /\ result[s] = Ok
        /\ TimesRendered(s, InContent("c.md")) >= 1

\* C18, the cyclic case: a document that includes itself, or whose index
\* block lists a document with the same block, is rendered again and again
\* inside itself, as deep as the bound lets the recursion go.
C18_CyclicWitness ==
    \E s \in Tasks :
        /\ ~Acyclic(s)
        /\ Depth(s) = MaxDepth
        /\ \A k \in DOMAIN stack[s] :
              stack[s][k].fn = "process_md" => stack[s][k].path = BasePath(s)

\* The directories above the page of the base document.
DirsAbovePage(s) ==
    {SubSeq(Mirror(disk[s].config, BasePath(s)), 1, k) :
        k \in 1..(Len(Mirror(disk[s].config, BasePath(s))) - 1)}

\* What process_file has left on the file system: no file unless it has
\* returned Ok, and no directory unless process_md has returned Ok for the
\* base document, and then only directories above the page.
FrameOfProcessFile ==
    \A s \in Tasks :
        /\ written[s] # <<>> =>
              /\ \A k \in DOMAIN stack[s] : stack[s][k].fn # "process_file"
              /\ status[s] = "finished" => result[s] = Ok
        /\ outdirs[s] # {} =>
              /\ \E r \in Renderings(s) : r.path = BasePath(s) /\ r.ret.ok
              /\ outdirs[s] \subseteq DirsAbovePage(s)

\* The output file is written by the last step of process_file alone, the
\* step that returns Ok.
WriteIsLast ==
    \A s \in Tasks :
        written'[s] # written[s] =>
            /\ At(s, "process_file", "write")
            /\ written'[s] = Append(written[s],
                   [path |-> Top(s).output_path, html |-> Top(s).html])
            /\ stack'[s] = Pop(s)[s]
            /\ ret'[s].ok

\* C19: process_file writes the output file as its last step only: when it
\* returns an error the file has not been created or modified, and the only
\* effect left is directories above the output file, created after the
\* Markdown was rendered.
C19_WriteLast ==
    []FrameOfProcessFile /\ [][WriteIsLast]_vars

\* C19, witness: process_file has failed reading the stylesheet: the
\* output directory is there, the page is not.
C19_Witness ==
    \E s \in Tasks :
        /\ status[s] = "finished"
        /\ result[s].kind = "Err" /\ result[s].err.kind = "ReadStyle"
        /\ outdirs[s] = DirsAbovePage(s) /\ outdirs[s] # {}
        /\ written[s] = <<>>

\* C19, a further case: create_dir_all has failed below a directory it had
\* made.
C19_PartialWitness ==
    \E s \in Tasks :
        /\ status[s] = "finished"
        /\ result[s].kind = "Err" /\ result[s].err.kind = "CreateOutputDir"
        /\ outdirs[s] # {} /\ outdirs[s] # DirsAbovePage(s)
        /\ written[s] = <<>>

\* No reference to the site context is held but the one create holds.
SoleOwner ==
    \A s \in Tasks : website[s].built => website[s].refs = 1

\* The step after a successful render of the header document installs the
\* fragment and goes on to the base document.
InstallSucceeds ==
    \A s \in Tasks :
        (At(s, "create", "header") /\ ret[s].ok /\ stack'[s] # stack[s]) =>
            /\ status'[s] = "running"
            /\ website'[s].header = ret[s].frag
            /\ stack'[s][Len(stack'[s])].fn = "process_file"

\* C20: the panic branch of Website::create is never taken: when the
\* header document has rendered, Arc::try_unwrap finds create the only
\* owner of the site context and the header is installed.
C20_InstallNeverPanics ==
    []SoleOwner /\ [][InstallSucceeds]_vars

\* C20, witness: a header built by the header handler has been installed
\* and process_file is about to start on the base document.
C20_Witness ==
    \E s \in Tasks :
        /\ At(s, "process_file", "start")
        /\ website[s].refs = 1
        /\ IsInfix(<<"</a></li>", "</nav>">>, website[s].header)

====
